---- MODULE Spec2Model ----
(***************************************************************************)
(* Live markdown decoration engine of hang.ai.                             *)
(*                                                                         *)
(* Two editors are modelled:                                               *)
(*   - CMMarkdownEditor (src/unnamed/part_003): a CodeMirror state         *)
(*     (document + selection) with the decoration field decorateDoc and    *)
(*     the widgets that write back into the document;                      *)
(*   - ContentEditableEditor: a content-editable DOM tree, rendered from   *)
(*     markdown and serialized back.                                       *)
(*                                                                         *)
(* Text is a sequence of one-character strings.  Document positions are    *)
(* 0-based character offsets, as in the source.                            *)
(***************************************************************************)
EXTENDS Integers, Sequences, FiniteSets, TLC

VARIABLES
    doc,            \* CM: state.doc.toString()
    selFrom,        \* CM: state.selection.main.from
    selTo,          \* CM: state.selection.main.to
    deco,           \* CM: value of richDecorField (the DecorationSet)
    onChangeText,   \* CM: argument of the most recent onChange call
    onAutoSaveProp, \* CM: whether the onAutoSave prop is given
    saveTimer,      \* CM: saveTimer.current and the text its callback closes over
    autoSaved,      \* CM: the arguments of the onAutoSave calls, in order
    escaped,        \* CM: the error of onAutoSave that left the editor uncaught last
    drag,           \* CM: the mouse gesture on an image widget (closure of toDOM)
    now,            \* time, in ticks of 200 ms
    keys,           \* CM: number and times of the keystrokes so far (history)
    lastOp,         \* CM: the last handled event (history, for frame conditions)
    value,          \* CE: the value prop (in SpecValue: the value prop of CMMarkdownEditor)
    nodes,          \* CE: the child nodes of the editor root, in order
    caret,          \* CE: window.getSelection(), collapsed: none, in a text node, in the root
    editingMathNodeRef,  \* CE: index in nodes of the raw math text node, 0 for null
    lastKeyRef,     \* CE: lastKeyRef.current
    keyDown,        \* CE: the key that is down and not yet released
    mathRenderTimeout,   \* CE: the pending math re-render callback
    saveTimeout,    \* CE: the pending autosave callback and the text it closes over
    ceOnChange,     \* CE: argument of the most recent onChange call
    ceAutoSaved,    \* CE: the most recent onAutoSave call (history)
    ceEvent,        \* CE: the last handler that ran (history)
    hung,           \* CE: a handler is in a loop that never ends
    currentEditorView,   \* CM: window.currentEditorView: "A", "B" or "null"
    peer,           \* CM: a second CMMarkdownEditor of the page, instance B
    uploads         \* CM: the uploadImage promises in flight and the pos each closes over

cmVars == <<doc, selFrom, selTo, deco, onChangeText, onAutoSaveProp, saveTimer,
            autoSaved, escaped, drag, keys, lastOp>>

ceVars == <<value, nodes, caret, editingMathNodeRef, lastKeyRef, keyDown,
            mathRenderTimeout, saveTimeout, ceOnChange, ceAutoSaved, ceEvent, hung>>

winVars == <<currentEditorView, peer, uploads>>

vars == <<cmVars, now, ceVars, winVars>>

----------------------------------------------------------------------------
(* Text helpers (JavaScript string primitives, 0-based) *)

At(text, i) == text[i + 1]

Slice(text, a, b) == SubSeq(text, a + 1, b)

StartsWith(text, pat, i) ==
    /\ i >= 0
    /\ i + Len(pat) <= Len(text)
    /\ \A k \in 1..Len(pat) : text[i + k] = pat[k]

\* smallest element of a non-empty set of integers
Min(S) == CHOOSE x \in S : \A y \in S : x <= y

\* String.prototype.indexOf(pat, from): -1 when absent
RECURSIVE IndexOf(_, _, _)
IndexOf(text, pat, from) ==
    IF from + Len(pat) > Len(text) THEN -1
    ELSE IF StartsWith(text, pat, from) THEN from
    ELSE IndexOf(text, pat, from + 1)

IsSpace(c) == c \in {" ", "\t"}

IsDigit(c) == c \in {"0", "1", "2", "3", "4", "5", "6", "7", "8", "9"}

\* length of the run of characters satisfying a class, starting at i
RECURSIVE SpaceRun(_, _)
SpaceRun(text, i) ==
    IF i < Len(text) /\ IsSpace(At(text, i)) THEN 1 + SpaceRun(text, i + 1) ELSE 0

RECURSIVE DigitRun(_, _)
DigitRun(text, i) ==
    IF i < Len(text) /\ IsDigit(At(text, i)) THEN 1 + DigitRun(text, i + 1) ELSE 0

RECURSIVE HashRun(_, _)
HashRun(text, i) ==
    IF i < Len(text) /\ At(text, i) = "#" THEN 1 + HashRun(text, i + 1) ELSE 0

----------------------------------------------------------------------------
(* Lines of a CodeMirror document: state.doc.line(i) = {from, to, text} *)

NewlinePositions(d) == {i \in 0..(Len(d) - 1) : At(d, i) = "\n"}

LineStarts(d) == {0} \cup {i + 1 : i \in NewlinePositions(d)}

LineEnd(d, from) ==
    LET nl == IndexOf(d, <<"\n">>, from)
    IN  IF nl = -1 THEN Len(d) ELSE nl

Lines(d) == {[from |-> f, to |-> LineEnd(d, f)] : f \in LineStarts(d)}

LineText(d, ln) == Slice(d, ln.from, ln.to)

\* mutant of LineAt: the line of the caret instead of the line of pos
LineAtCaret(d, pos) == CHOOSE ln \in Lines(d) : ln.from <= selFrom /\ selFrom <= ln.to

\* doc.lineAt(pos)
LineAt(d, pos) == CHOOSE ln \in Lines(d) : ln.from <= pos /\ pos <= ln.to

----------------------------------------------------------------------------
(* Block-level line patterns of decorateDoc *)

\* /^(\s*)- \[([ x])\](.*)$/
checklistRe(text) ==
    LET n == SpaceRun(text, 0)
    IN  /\ StartsWith(text, <<"-", " ", "[">>, n)
        /\ n + 4 < Len(text)
        /\ At(text, n + 3) \in {" ", "x"}
        /\ At(text, n + 4) = "]"

ChecklistIndent(text) == SpaceRun(text, 0)

ChecklistChecked(text) == At(text, SpaceRun(text, 0) + 3) = "x"

\* /^(#{1,6})(\s+)/ : length of the marker, 0 when the line does not match
headingMarkerLen(text) ==
    LET h == HashRun(text, 0)
        w == SpaceRun(text, h)
    IN  IF h >= 1 /\ h <= 6 /\ w >= 1 THEN h + w ELSE 0

\* /^(>\s+)/
bqMarkerLen(text) ==
    IF Len(text) >= 1 /\ At(text, 0) = ">" /\ SpaceRun(text, 1) >= 1
    THEN 1 + SpaceRun(text, 1) ELSE 0

\* /^(\s*)([-*+])\s+/
ulMarkerLen(text) ==
    LET n == SpaceRun(text, 0)
    IN  IF n < Len(text) /\ At(text, n) \in {"-", "*", "+"} /\ SpaceRun(text, n + 1) >= 1
        THEN n + 1 + SpaceRun(text, n + 1) ELSE 0

\* /^(\s*)(\d+)\.\s+/
olMarkerLen(text) ==
    LET n == SpaceRun(text, 0)
        d == DigitRun(text, n)
    IN  IF d >= 1 /\ n + d < Len(text) /\ At(text, n + d) = "."
           /\ SpaceRun(text, n + d + 1) >= 1
        THEN n + d + 1 + SpaceRun(text, n + d + 1) ELSE 0

----------------------------------------------------------------------------
(* scanMath: the delimiter scanner of the CodeMirror editor *)

RECURSIVE BackslashRun(_, _)
BackslashRun(text, k) ==
    IF k >= 0 /\ At(text, k) = "\\" THEN 1 + BackslashRun(text, k - 1) ELSE 0

\* isEsc(idx): preceded by an odd number of backslashes
isEsc(text, idx) == BackslashRun(text, idx - 1) % 2 = 1

MathOpen(block) == IF block THEN <<"$", "$">> ELSE <<"$">>

\* the inner while loop: the end of the match, or -1 when the text runs out
RECURSIVE scanMathClose(_, _, _)
scanMathClose(text, block, i) ==
    IF i >= Len(text) THEN -1
    ELSE IF StartsWith(text, MathOpen(block), i) /\ ~isEsc(text, i)
         THEN IF ~block /\ StartsWith(text, <<"$", "$">>, i)
              THEN scanMathClose(text, block, i + 1)
              ELSE i + Len(MathOpen(block))
         ELSE scanMathClose(text, block, i + 1)

\* the outer while loop: the set of <<start, end>> handed to onMatch
RECURSIVE scanMathFrom(_, _, _)
scanMathFrom(text, block, i) ==
    IF i >= Len(text) THEN {}
    ELSE IF StartsWith(text, MathOpen(block), i) /\ ~isEsc(text, i)
         THEN IF ~block /\ StartsWith(text, <<"$", "$">>, i)
              THEN scanMathFrom(text, block, i + 1)
              ELSE LET e == scanMathClose(text, block, i + Len(MathOpen(block)))
                   IN  IF e = -1 THEN {}
                       ELSE {<<i, e>>} \cup scanMathFrom(text, block, e)
         ELSE scanMathFrom(text, block, i + 1)

scanMath(text, block) == scanMathFrom(text, block, 0)

\* the outer while loop again: the offset of the opener whose inner loop ran
\* to the end of the text without finding a closer, or -1
RECURSIVE scanMathUnmatched(_, _, _)
scanMathUnmatched(text, block, i) ==
    IF i >= Len(text) THEN -1
    ELSE IF StartsWith(text, MathOpen(block), i) /\ ~isEsc(text, i)
         THEN IF ~block /\ StartsWith(text, <<"$", "$">>, i)
              THEN scanMathUnmatched(text, block, i + 1)
              ELSE LET e == scanMathClose(text, block, i + Len(MathOpen(block)))
                   IN  IF e = -1 THEN i ELSE scanMathUnmatched(text, block, e)
         ELSE scanMathUnmatched(text, block, i + 1)

----------------------------------------------------------------------------
(* Inline patterns of decorateDoc: image, bold, italic *)

CommentTags == {<<"p", "o", "s", ":">>, <<"i", "n", "l", "i", "n", "e", ":">>,
                <<"s", "i", "z", "e", ":">>}

\* (?:<!--(pos|inline|size):(.*?)-->)* starting at p: the end of the last comment
RECURSIVE imgCommentsEnd(_, _)
imgCommentsEnd(text, p) ==
    LET tags == {t \in CommentTags :
                    StartsWith(text, <<"<", "!", "-", "-">> \o t, p)}
    IN  IF tags = {} THEN p
        ELSE LET t == CHOOSE t \in tags : TRUE
                 e == IndexOf(text, <<"-", "-", ">">>, p + 4 + Len(t))
             IN  IF e = -1 THEN p ELSE imgCommentsEnd(text, e + 3)

\* !\[(.*?)\]\((.*?)\) anchored at i: <<j, k>> = offsets of "](" and of ")"
\* (a dot matches no line terminator, so neither group spans a carriage return)
imgTokenAt(text, i) ==
    IF ~StartsWith(text, <<"!", "[">>, i) THEN <<-1, -1>>
    ELSE LET j == IndexOf(text, <<"]", "(">>, i + 2)
             k == IndexOf(text, <<")">>, j + 2)
         IN  IF j = -1 \/ k = -1 THEN <<-1, -1>>
             ELSE IF \E q \in (i + 2)..(k - 1) : At(text, q) \in {"\n", "\r"}
                  THEN <<-1, -1>>
                  ELSE <<j, k>>

\* the exec loop of imgRe (flag g) from lastIndex
RECURSIVE imgReFrom(_, _)
imgReFrom(text, lastIndex) ==
    LET i == IndexOf(text, <<"!", "[">>, lastIndex)
        jk == imgTokenAt(text, i)
    IN  IF i = -1 THEN {}
        ELSE IF jk[2] = -1 THEN imgReFrom(text, i + 1)
        ELSE LET e == imgCommentsEnd(text, jk[2] + 1)
             IN  {[index |-> i, altEnd |-> jk[1], srcEnd |-> jk[2], end |-> e]}
                     \cup imgReFrom(text, e)

imgRe(text) == imgReFrom(text, 0)

\* /\*\*(.+?)\*\*/g : the set of <<index, end>>
RECURSIVE boldReFrom(_, _)
boldReFrom(text, lastIndex) ==
    LET i == IndexOf(text, <<"*", "*">>, lastIndex)
        j == IndexOf(text, <<"*", "*">>, i + 3)
    IN  IF i = -1 \/ j = -1 THEN {}
        ELSE {<<i, j + 2>>} \cup boldReFrom(text, j + 2)

boldRe(text) == boldReFrom(text, 0)

\* \*(?!\*)([^\n*]+?)\*(?!\*) with the opening star at s: the end, or -1
italicBodyAt(text, s) ==
    IF ~(s + 1 < Len(text) /\ At(text, s) = "*" /\ At(text, s + 1) \notin {"*", "\n"})
    THEN -1
    ELSE LET q == IndexOf(text, <<"*">>, s + 2)
         IN  IF q = -1 THEN -1
             ELSE IF \E k \in (s + 1)..(q - 1) : At(text, k) = "\n" THEN -1
             ELSE IF q + 1 < Len(text) /\ At(text, q + 1) = "*" THEN -1
             ELSE q + 1

\* (^|[^*]) then the body, tried at index p: <<length of group 1, end>>
italicAt(text, p) ==
    IF p = 0 /\ italicBodyAt(text, 0) # -1 THEN <<0, italicBodyAt(text, 0)>>
    ELSE IF p < Len(text) /\ At(text, p) # "*" /\ italicBodyAt(text, p + 1) # -1
         THEN <<1, italicBodyAt(text, p + 1)>>
         ELSE <<0, -1>>

\* the exec loop of italicRe (flag g): the set of <<matchStart, matchEnd>>
RECURSIVE italicReFrom(_, _)
italicReFrom(text, lastIndex) ==
    IF lastIndex >= Len(text) THEN {}
    ELSE LET m == italicAt(text, lastIndex)
         IN  IF m[2] = -1 THEN italicReFrom(text, lastIndex + 1)
             ELSE {<<lastIndex + m[1], m[2]>>} \cup italicReFrom(text, m[2])

italicRe(text) == italicReFrom(text, 0)

----------------------------------------------------------------------------
(* decorateDoc: the decoration pass of the CodeMirror editor *)

\* one range of the DecorationSet.  kind: "replace" (Decoration.replace),
\* "widget" (Decoration.widget at a point), "mark" (Decoration.mark)
Deco(kind, what, from, to, checked) ==
    [kind |-> kind, what |-> what, from |-> from, to |-> to, checked |-> checked]

\* mutant of shouldKeepRaw: a caret exactly at a boundary no longer keeps raw
shouldKeepRawStrict(from, to, pos, type) ==
    IF type = "image" THEN FALSE ELSE pos > from /\ pos < to

shouldKeepRaw(from, to, pos, type) ==
    IF type = "image" THEN FALSE
    ELSE (pos > from /\ pos < to) \/ pos = from \/ pos = to

\* text is line.text and ln the line's {from, to} in what follows

\* the line is replaced by a ChecklistWidget (and the rest of the pass skipped)
ChecklistRendered(text, ln, pos) ==
    /\ checklistRe(text)
    /\ ~shouldKeepRaw(ln.from, ln.to, pos, "checklist")

ChecklistDecos(text, ln) ==
    {Deco("replace", "checklist", ln.from, ln.to, ChecklistChecked(text))}

HeadingDecos(text, ln) ==
    LET n == headingMarkerLen(text)
    IN  IF n > 0 THEN {Deco("replace", "heading", ln.from, ln.from + n, FALSE)} ELSE {}

BlockquoteDecos(text, ln) ==
    LET n == bqMarkerLen(text)
    IN  IF n > 0 THEN {Deco("replace", "blockquote", ln.from, ln.from + n, FALSE)} ELSE {}

UlDecos(text, ln) ==
    LET n == ulMarkerLen(text)
    IN  IF n > 0
        THEN {Deco("widget", "bullet", ln.from, ln.from, FALSE),
              Deco("replace", "ul", ln.from, ln.from + n, FALSE)}
        ELSE {}

OlDecos(text, ln) ==
    LET n == olMarkerLen(text)
    IN  IF n > 0
        THEN {Deco("widget", "olnum", ln.from, ln.from, FALSE),
              Deco("replace", "ol", ln.from, ln.from + n, FALSE)}
        ELSE {}

MathWhat(block) == IF block THEN "mathblock" ELSE "mathinline"

MathDecos(text, ln, pos, block) ==
    {Deco("replace", MathWhat(block), ln.from + m[1], ln.from + m[2], FALSE) :
        m \in {r \in scanMath(text, block) :
                  ~shouldKeepRaw(ln.from + r[1], ln.from + r[2], pos, "math")}}

ImageDecos(text, ln) ==
    {Deco("replace", "image", ln.from + m.index, ln.from + m.end, FALSE) :
        m \in imgRe(text)}

BoldDecos(text, ln, pos) ==
    UNION {{Deco("mark", "strong", ln.from + m[1] + 2, ln.from + m[2] - 2, FALSE),
            Deco("replace", "boldmark", ln.from + m[1], ln.from + m[1] + 2, FALSE),
            Deco("replace", "boldmark", ln.from + m[2] - 2, ln.from + m[2], FALSE)} :
        m \in {r \in boldRe(text) :
                  /\ ~shouldKeepRaw(ln.from + r[1], ln.from + r[2], pos, "bold")
                  /\ r[1] + 2 < r[2] - 2}}

ItalicDecos(text, ln, pos) ==
    UNION {{Deco("mark", "em", ln.from + m[1] + 1, ln.from + m[2] - 1, FALSE),
            Deco("replace", "italicmark", ln.from + m[1], ln.from + m[1] + 1, FALSE),
            Deco("replace", "italicmark", ln.from + m[2] - 1, ln.from + m[2], FALSE)} :
        m \in {r \in italicRe(text) :
                  /\ ~shouldKeepRaw(ln.from + r[1], ln.from + r[2], pos, "italic")
                  /\ r[1] + 1 < r[2] - 1}}

\* the body of the for loop, for one line
LineDecos(text, ln, pos) ==
    IF ChecklistRendered(text, ln, pos) THEN ChecklistDecos(text, ln)
    ELSE HeadingDecos(text, ln) \cup BlockquoteDecos(text, ln) \cup UlDecos(text, ln)
            \cup OlDecos(text, ln)
            \cup MathDecos(text, ln, pos, TRUE) \cup MathDecos(text, ln, pos, FALSE)
            \cup ImageDecos(text, ln)
            \cup BoldDecos(text, ln, pos) \cup ItalicDecos(text, ln, pos)

\* decorateDoc(state), with sel = state.selection.main: only sel.from is read
decorateDoc(d, from, to) ==
    UNION {LineDecos(LineText(d, ln), ln, from) : ln \in Lines(d)}

----------------------------------------------------------------------------
(* CMMarkdownEditor: the editor state and its transactions *)

\* onChange has not been called yet
NoCall == <<"<no call>">>

NoTimer == [active |-> FALSE, text |-> <<>>, left |-> 0]

\* One tick of the clock is 200 ms.
\* the debounce delay of the update listener: setTimeout(..., 800)
CMSaveDelay == 4

NoKeys == [n |-> 0, first |-> 0, last |-> 0]

NoOp == [op |-> "none", before |-> <<>>, from |-> 0, to |-> 0, checked |-> FALSE]

\* no second instance on the page
NoPeer == [mounted |-> FALSE, doc |-> <<>>, deco |-> {}]

\* the page holds one CMMarkdownEditor, instance A: its mount effect has set
\* window.currentEditorView to its view, and no upload has been started
OnlyInstance == currentEditorView = "A" /\ peer = NoPeer /\ uploads = <<>>

\* no gesture on an image: isMouseDragging = false, originalPosition = {0, 0},
\* lastVerticalMove = 0 (in lines of 24 px); alt and src are those of the widget
\* of the gesture, attached tells whether its <img> is still in the editor.
\* History: wfrom and wto are the range the widget replaced at mousedown, n
\* counts the image interactions of the run and v its vertical moves.
\* px is the pixel view of the widget: window.innerWidth, span.style.marginLeft,
\* the rendered size of the <img> (offsetWidth, offsetHeight), and the closure
\* variables startOffset, isResizing (as the handle that is held, or "none"),
\* startWidth and startHeight.  It is followed in SpecPixels only.
NoPx == [innerWidth |-> 0, marginLeft |-> 0, width |-> 0, height |-> 0,
         startOffset |-> 0, resizing |-> "none", startWidth |-> 0, startHeight |-> 0]

NoDrag == [active |-> FALSE, alt |-> <<>>, src |-> <<>>, from |-> 0, to |-> 0,
           last |-> 0, attached |-> FALSE, wfrom |-> 0, wto |-> 0, n |-> 0, v |-> 0,
           px |-> NoPx]

\* richDecorField.update: recomputed when the transaction changes the document
\* or sets the selection
richDecorField(d, from, to, docChanged, selSet) ==
    IF docChanged \/ selSet THEN decorateDoc(d, from, to) ELSE deco

\* EditorView.updateListener: onChange and the debounced onAutoSave
updateListener(docChanged, text) ==
    /\ onChangeText' = IF docChanged THEN text ELSE onChangeText
    /\ saveTimer' = IF docChanged /\ onAutoSaveProp
                    THEN [active |-> TRUE, text |-> text, left |-> CMSaveDelay]
                    ELSE saveTimer

\* view.dispatch: the new state, the decoration field, then the listener
Dispatch(d, from, to, docChanged, selSet) ==
    /\ doc' = d
    /\ selFrom' = from
    /\ selTo' = to
    /\ deco' = richDecorField(d, from, to, docChanged, selSet)
    /\ updateListener(docChanged, d)

\* the user moves the caret or selects a range (pointer or arrow keys)
CMSelect(a, b) ==
    /\ 0 <= a /\ a <= b /\ b <= Len(doc)
    /\ <<a, b>> # <<selFrom, selTo>>
    /\ Dispatch(doc, a, b, FALSE, TRUE)
    /\ lastOp' = NoOp
    /\ UNCHANGED <<onAutoSaveProp, autoSaved, escaped, drag, now, keys, ceVars, winVars>>

\* the same selection change when katex.renderToString throws for the math
\* region that starts at offset k (throwOnError: false renders parse errors, any
\* other exception is rethrown): nothing encloses the call in decorateDoc, so
\* the exception leaves richDecorField.update and view.dispatch, and the
\* transaction is not applied
CMSelectThrowing(a, b, k) ==
    /\ 0 <= a /\ a <= b /\ b <= Len(doc)
    /\ <<a, b>> # <<selFrom, selTo>>
    /\ \E d \in decorateDoc(doc, a, b) :
           d.what \in {MathWhat(TRUE), MathWhat(FALSE)} /\ d.from = k
    /\ escaped' = "katex"
    /\ lastOp' = [op |-> "typeset", before |-> doc, from |-> a, to |-> b,
                  checked |-> FALSE, at |-> k]
    /\ UNCHANGED <<doc, selFrom, selTo, deco, onChangeText, saveTimer, onAutoSaveProp,
                   autoSaved, drag, now, keys, ceVars, winVars>>

\* ChangeSet.mapPos(pos, assoc) through the replacement of [from, to) by text of
\* the same length: only positions strictly inside the range move
MapPos(pos, from, to, assoc) ==
    IF pos > from /\ pos < to THEN (IF assoc < 0 THEN from ELSE to) ELSE pos

\* ChecklistWidget.toggleCheckbox; w is a widget of the current DecorationSet.
\* String.prototype.replace(pattern, by) replaces the first occurrence.
ReplaceFirst(text, pat, by) ==
    LET i == IndexOf(text, pat, 0)
    IN  IF i = -1 THEN text
        ELSE Slice(text, 0, i) \o by \o Slice(text, i + Len(pat), Len(text))

ToggledLine(lineText, checked) ==
    IF checked
    THEN ReplaceFirst(lineText, <<"-", " ", "[", "x", "]">>, <<"-", " ", "[", " ", "]">>)
    ELSE ReplaceFirst(lineText, <<"-", " ", "[", " ", "]">>, <<"-", " ", "[", "x", "]">>)

toggleCheckbox(w) ==
    LET currentLine == LineAt(doc, w.from)
        newLineText == ToggledLine(LineText(doc, currentLine), w.checked)
        d == Slice(doc, 0, currentLine.from) \o newLineText
                 \o Slice(doc, currentLine.to, Len(doc))
        collapsed == selFrom = selTo
        f == MapPos(selFrom, currentLine.from, currentLine.to, IF collapsed THEN -1 ELSE 1)
        t == MapPos(selTo, currentLine.from, currentLine.to, -1)
    IN  /\ w \in deco
        /\ w.what = "checklist"
        /\ Dispatch(d, f, IF t < f THEN f ELSE t, TRUE, FALSE)
        /\ lastOp' = [op |-> "toggle", before |-> doc, from |-> w.from, to |-> w.to,
                      checked |-> w.checked]
        /\ UNCHANGED <<onAutoSaveProp, autoSaved, escaped, drag, now, keys, ceVars, winVars>>

\* a second CMMarkdownEditor mounts with document d: its mount effect
\* overwrites window.currentEditorView
MountPeer(d) ==
    /\ ~peer.mounted
    /\ peer' = [mounted |-> TRUE, doc |-> d, deco |-> decorateDoc(d, 0, 0)]
    /\ currentEditorView' = "B"
    /\ lastOp' = [NoOp EXCEPT !.op = "mount"]
    /\ UNCHANGED <<doc, selFrom, selTo, deco, onChangeText, onAutoSaveProp, saveTimer,
                   autoSaved, escaped, drag, now, keys, ceVars, uploads>>

\* the second instance unmounts: its cleanup destroys its view and sets
\* window.currentEditorView to null
UnmountPeer ==
    /\ peer.mounted
    /\ peer' = NoPeer
    /\ currentEditorView' = "null"
    /\ lastOp' = [NoOp EXCEPT !.op = "unmount"]
    /\ UNCHANGED <<doc, selFrom, selTo, deco, onChangeText, onAutoSaveProp, saveTimer,
                   autoSaved, escaped, drag, now, keys, ceVars, uploads>>

\* the document toggleCheckbox dispatches to a view whose document is d, for
\* the widget that was built at offset from
Toggled(d, from, checked) ==
    LET currentLine == LineAt(d, from)
    IN  Slice(d, 0, currentLine.from) \o ToggledLine(LineText(d, currentLine), checked)
            \o Slice(d, currentLine.to, Len(d))

\* toggleCheckbox of a widget of instance A reaching the view of instance A
ToggleInA(w) ==
    LET currentLine == LineAt(doc, w.from)
        collapsed == selFrom = selTo
        f == MapPos(selFrom, currentLine.from, currentLine.to, IF collapsed THEN -1 ELSE 1)
        t == MapPos(selTo, currentLine.from, currentLine.to, -1)
    IN  /\ Dispatch(Toggled(doc, w.from, w.checked), f, IF t < f THEN f ELSE t, TRUE, FALSE)
        /\ UNCHANGED <<peer, escaped>>

\* toggleCheckbox reaching the view of instance B, whose selection is at 0
ToggleInB(w) ==
    LET d == Toggled(peer.doc, w.from, w.checked)
    IN  /\ peer' = [peer EXCEPT !.doc = d, !.deco = decorateDoc(d, 0, 0)]
        /\ UNCHANGED <<doc, selFrom, selTo, deco, onChangeText, saveTimer, escaped>>

\* a click on the checkbox of widget w of instance inst: toggleCheckbox reads
\* window.currentEditorView, returns when it is null, and doc.lineAt throws a
\* RangeError for an offset behind the end of that view's document
WidgetClick(inst, w) ==
    /\ w \in (IF inst = "A" THEN deco ELSE peer.deco)
    /\ w.what = "checklist"
    /\ IF currentEditorView = "null"
       THEN UNCHANGED <<doc, selFrom, selTo, deco, onChangeText, saveTimer, peer, escaped>>
       ELSE IF w.from > Len(IF currentEditorView = "A" THEN doc ELSE peer.doc)
       THEN /\ escaped' = "RangeError"
            /\ UNCHANGED <<doc, selFrom, selTo, deco, onChangeText, saveTimer, peer>>
       ELSE IF currentEditorView = "A" THEN ToggleInA(w)
       ELSE ToggleInB(w)
    /\ lastOp' = [op |-> "toggle", before |-> doc, from |-> w.from, to |-> w.to,
                  checked |-> w.checked, inst |-> inst, peerBefore |-> peer.doc]
    /\ UNCHANGED <<currentEditorView, onAutoSaveProp, autoSaved, drag, now, keys, ceVars,
                   uploads>>

----------------------------------------------------------------------------
(* CMMarkdownEditor: the image widget and the functions that write the      *)
(* image annotations back into the document                                 *)

\* String.prototype.substring(a, b): both ends are clamped to the text and
\* swapped when a > b
Substring(text, a, b) ==
    LET ca == IF a < 0 THEN 0 ELSE IF a > Len(text) THEN Len(text) ELSE a
        cb == IF b < 0 THEN 0 ELSE IF b > Len(text) THEN Len(text) ELSE b
    IN  IF ca <= cb THEN SubSeq(text, ca + 1, cb) ELSE SubSeq(text, cb + 1, ca)

\* `![${alt}](${src})`
ImgLit(alt, src) == <<"!", "[">> \o alt \o <<"]", "(">> \o src \o <<")">>

\* the alt and src an ImageWidget was constructed with: groups 1 and 2 of the
\* imgRe match the widget replaces
WidgetAlt(w) ==
    LET tok == Slice(doc, w.from, w.to)
    IN  Slice(tok, 2, imgTokenAt(tok, 0)[1])

WidgetSrc(w) ==
    LET tok == Slice(doc, w.from, w.to)
    IN  Slice(tok, imgTokenAt(tok, 0)[1] + 2, imgTokenAt(tok, 0)[2])

PosTag == <<"p", "o", "s", ":">>

InlineTag == <<"i", "n", "l", "i", "n", "e", ":">>

SizeTag == <<"s", "i", "z", "e", ":">>

\* `<!--${tag}:${JSON.stringify(data)}-->`
Annotation(tag, data) == <<"<", "!", "-", "-">> \o tag \o data \o <<"-", "-", ">">>

\* JSON.stringify(positioningData): of {alignment, offset, timestamp} the text
\* keeps the alignment, by its initial letter (l, c, r for the menu, i for
\* "inline"); the offset and the timestamp are left out
PositioningData(alignment) == <<alignment>>

\* JSON.stringify(sizeData), {width, height, timestamp}: one letter
SizeData == <<"z">>

\* <!--(?:tags):.*?--> anchored at p: the offset behind the comment, -1 when
\* there is no match (a dot matches no line terminator)
commentEndAt(text, p, tags) ==
    LET here == {t \in tags : StartsWith(text, <<"<", "!", "-", "-">> \o t, p)}
    IN  IF here = {} THEN -1
        ELSE LET t == CHOOSE t \in here : TRUE
                 e == IndexOf(text, <<"-", "-", ">">>, p + 4 + Len(t))
             IN  IF e = -1 THEN -1
                 ELSE IF \E q \in (p + 4 + Len(t))..(e - 1) : At(text, q) \in {"\n", "\r"}
                      THEN -1
                      ELSE e + 3

\* (?:<!--(?:tags):.*?-->)* anchored at p: the offset behind the last comment
RECURSIVE commentsEndAt(_, _, _)
commentsEndAt(text, p, tags) ==
    IF commentEndAt(text, p, tags) = -1 THEN p
    ELSE commentsEndAt(text, commentEndAt(text, p, tags), tags)

\* the end of a match of one of the three patterns built from the escaped alt
\* and src, anchored at i where the literal token stands: the token with
\*   "one"  exactly one pos/inline comment   (existingPositionedMarkdown)
\*   "opt"  an optional pos/inline comment   (imgRe of findImageRange)
\*   "all"  any pos/inline/size comments     (existingSizedMarkdown)
\* -1 when the pattern does not match there
ImgMatchEnd(text, i, lit, mode) ==
    LET p == i + Len(lit)
        one == commentEndAt(text, p, {PosTag, InlineTag})
    IN  IF mode = "one" THEN one
        ELSE IF mode = "opt" THEN (IF one = -1 THEN p ELSE one)
        ELSE commentsEndAt(text, p, CommentTags)

\* RegExp.prototype.exec from lastIndex: <<index, end>> of the first match,
\* <<-1, -1>> for null
RECURSIVE ImgExec(_, _, _, _)
ImgExec(text, lit, mode, lastIndex) ==
    LET i == IndexOf(text, lit, lastIndex)
    IN  IF i = -1 THEN <<-1, -1>>
        ELSE IF ImgMatchEnd(text, i, lit, mode) = -1 THEN ImgExec(text, lit, mode, i + 1)
        ELSE <<i, ImgMatchEnd(text, i, lit, mode)>>

\* String.prototype.replace(regexp with flag g, by): every match, left to
\* right (alt, src and the annotations hold no "$" here, so by is literal)
RECURSIVE ImgReplaceAll(_, _, _, _, _)
ImgReplaceAll(text, lit, mode, by, from) ==
    LET m == ImgExec(text, lit, mode, from)
    IN  IF m[1] = -1 THEN Substring(text, from, Len(text))
        ELSE Substring(text, from, m[1]) \o by
                 \o ImgReplaceAll(text, lit, mode, by, m[2])

\* ImageWidget.findImageRange: the first match, or null ([from |-> -1])
findImageRange(text, src, alt) ==
    LET m == ImgExec(text, ImgLit(alt, src), "opt", 0)
    IN  [from |-> m[1], to |-> m[2]]

\* saveImagePositioning: the new content of the document
saveImagePositioning(currentContent, src, alt, alignment) ==
    LET tag == IF alignment \in {"i", "b"} THEN InlineTag ELSE PosTag
        originalMarkdown == ImgLit(alt, src)
        positionedMarkdown == originalMarkdown \o Annotation(tag, PositioningData(alignment))
    IN  IF ImgExec(currentContent, originalMarkdown, "one", 0)[1] # -1
        THEN ImgReplaceAll(currentContent, originalMarkdown, "one", positionedMarkdown, 0)
        ELSE ReplaceFirst(currentContent, originalMarkdown, positionedMarkdown)

\* ImageWidget.saveImageSize: the new content of the document
saveImageSize(currentContent, src, alt) ==
    LET originalMarkdown == ImgLit(alt, src)
        sizedMarkdown == originalMarkdown \o Annotation(SizeTag, SizeData)
    IN  IF ImgExec(currentContent, originalMarkdown, "all", 0)[1] # -1
        THEN ImgReplaceAll(currentContent, originalMarkdown, "all", sizedMarkdown, 0)
        ELSE ReplaceFirst(currentContent, originalMarkdown, sizedMarkdown)

\* every /<!--(pos|inline|size):.*?-->/g match of text from p on, joined
RECURSIVE JoinedComments(_, _)
JoinedComments(text, p) ==
    LET i == IndexOf(text, <<"<", "!", "-", "-">>, p)
    IN  IF i = -1 THEN <<>>
        ELSE IF commentEndAt(text, i, CommentTags) = -1 THEN JoinedComments(text, i + 1)
        ELSE Substring(text, i, commentEndAt(text, i, CommentTags))
                 \o JoinedComments(text, commentEndAt(text, i, CommentTags))

\* line.number of a line of d
LineNumber(d, ln) == Cardinality({f \in LineStarts(d) : f <= ln.from})

\* doc.line(n)
LineNo(d, n) == CHOOSE ln \in Lines(d) : LineNumber(d, ln) = n

\* the text moveImageVertically inserts: the token, the comments found inside
\* originalPosition, and a line break
imageWithNewline(text, g) ==
    ImgLit(g.alt, g.src) \o JoinedComments(Substring(text, g.from, g.to), 0) \o <<"\n">>

\* the content after the removal of originalPosition and the insertion at
\* insertPosition
MovedContent(text, g, insertPosition) ==
    LET removed == Substring(text, 0, g.from) \o Substring(text, g.to, Len(text))
    IN  Substring(removed, 0, insertPosition) \o imageWithNewline(text, g)
            \o Substring(removed, insertPosition, Len(removed))

\* ImageWidget.moveImageVertically(deltaY, originalPosition) for the gesture
\* g, with linesToMove = Math.round(deltaY / 24): moved tells whether the
\* document was dispatched, content and sel are the dispatched content and
\* selection, from and to the originalPosition it leaves
moveImageVertically(text, g, linesToMove) ==
    LET targetLineNumber == LineNumber(text, LineAt(text, g.from)) - linesToMove
    IN  IF targetLineNumber < 1 \/ targetLineNumber > Cardinality(Lines(text))
        THEN [moved |-> FALSE, content |-> text, sel |-> 0, from |-> g.from, to |-> g.to,
              target |-> 0]
        ELSE LET insertPosition == LineNo(text, targetLineNumber).from
                 newContent == MovedContent(text, g, insertPosition)
                 selectionPosition == insertPosition + Len(imageWithNewline(text, g))
             IN  [moved |-> TRUE,
                  content |-> newContent,
                  sel |-> IF selectionPosition < Len(newContent)
                          THEN selectionPosition ELSE Len(newContent),
                  from |-> insertPosition,
                  to |-> insertPosition + Len(imageWithNewline(text, g)),
                  target |-> insertPosition]

\* ChangeSet.mapPos(pos, assoc) through the replacement of the whole document
\* (oldLen > 0 characters) by newLen characters
MapPosAll(pos, oldLen, newLen, assoc) ==
    IF pos = 0 THEN 0
    ELSE IF pos < oldLen THEN (IF assoc < 0 THEN 0 ELSE newLen)
    ELSE newLen

\* view.dispatch({changes: {from: 0, to: doc.length, insert: newContent}}): the
\* selection is mapped through the change
DispatchContent(newContent) ==
    LET f == MapPosAll(selFrom, Len(doc), Len(newContent),
                       IF selFrom = selTo THEN -1 ELSE 1)
        t == MapPosAll(selTo, Len(doc), Len(newContent), -1)
    IN  Dispatch(newContent, f, IF t < f THEN f ELSE t, TRUE, FALSE)

\* bound: the number of image interactions of a run
MaxImageOps == 3

\* the history record of an image interaction: the document before it, the
\* range the code worked on (from, to), the widget's alt and src, the argument
\* (alignment, side), the range the widget replaced (wfrom, wto), the start of
\* the target line, and whether a vertical move was the first of its gesture
ImgOp(op, rng, alt, src, arg, w, target, first) ==
    [op |-> op, before |-> doc, from |-> rng.from, to |-> rng.to, checked |-> FALSE,
     alt |-> alt, src |-> src, arg |-> arg, wfrom |-> w.from, wto |-> w.to,
     target |-> target, first |-> first]

ImageWidgets == {w \in deco : w.what = "image"}

\* the three alignments of showAlignmentMenu
Alignments == {"l", "c", "r"}

\* contextmenu on the image, then a button of the alignment menu:
\* saveImagePositioning(img, src, alt, alignment.value, 0)
ImageAlign(w, alignment) ==
    /\ w \in ImageWidgets
    /\ ~drag.active
    /\ drag.n < MaxImageOps
    /\ DispatchContent(saveImagePositioning(doc, WidgetSrc(w), WidgetAlt(w), alignment))
    /\ lastOp' = ImgOp("align", w, WidgetAlt(w), WidgetSrc(w), alignment, w, 0, FALSE)
    /\ drag' = [drag EXCEPT !.n = drag.n + 1]
    /\ UNCHANGED <<onAutoSaveProp, autoSaved, escaped, now, keys, ceVars, winVars>>

\* mousedown on a resize handle, mousemove, mouseup: saveImageSize
ImageResize(w) ==
    /\ w \in ImageWidgets
    /\ ~drag.active
    /\ drag.n < MaxImageOps
    /\ DispatchContent(saveImageSize(doc, WidgetSrc(w), WidgetAlt(w)))
    /\ lastOp' = ImgOp("resize", w, WidgetAlt(w), WidgetSrc(w), "z", w, 0, FALSE)
    /\ drag' = [drag EXCEPT !.n = drag.n + 1]
    /\ UNCHANGED <<onAutoSaveProp, autoSaved, escaped, now, keys, ceVars, winVars>>

\* mousedown (left button) on the image: the gesture starts and
\* originalPosition is looked up by alt and src; no transaction
ImageMouseDown(w) ==
    /\ w \in ImageWidgets
    /\ ~drag.active
    /\ drag.px.resizing = "none"
    /\ drag.n < MaxImageOps
    /\ LET r == findImageRange(doc, WidgetSrc(w), WidgetAlt(w))
       IN  drag' = [drag EXCEPT !.active = TRUE, !.alt = WidgetAlt(w), !.src = WidgetSrc(w),
                                !.from = IF r.from = -1 THEN 0 ELSE r.from,
                                !.to = IF r.from = -1 THEN 0 ELSE r.to,
                                !.last = 0, !.attached = TRUE,
                                !.wfrom = w.from, !.wto = w.to,
                                !.px = [drag.px EXCEPT !.startOffset = drag.px.marginLeft]]
    /\ lastOp' = NoOp
    /\ UNCHANGED <<doc, selFrom, selTo, deco, onChangeText, saveTimer, onAutoSaveProp,
                   autoSaved, escaped, now, keys, ceVars, winVars>>

\* bound: how many lines a mousemove is away from the start of the gesture
\* (deltaY = 24 * lines, so every change of it passes the 20 px threshold)
DragLines == {-1, 1}

\* mousemove of the gesture with deltaY = 24 * lines: the horizontal part only
\* restyles the widget; past the threshold moveImageVertically runs, and the
\* dispatch rebuilds every widget, which detaches the <img> of the gesture
ImageMouseMove(lines) ==
    /\ drag.active
    /\ drag.n < MaxImageOps
    /\ lines # drag.last
    /\ LET mv == moveImageVertically(doc, drag, lines)
       IN  /\ IF mv.moved
              THEN Dispatch(mv.content, mv.sel, mv.sel, TRUE, TRUE)
              ELSE UNCHANGED <<doc, selFrom, selTo, deco, onChangeText, saveTimer>>
           /\ drag' = [drag EXCEPT !.from = mv.from, !.to = mv.to, !.last = lines,
                                    !.attached = drag.attached /\ ~mv.moved,
                                    !.n = drag.n + 1,
                                    !.v = IF mv.moved THEN drag.v + 1 ELSE drag.v]
           /\ lastOp' = IF mv.moved
                        THEN ImgOp("vmove", drag, drag.alt, drag.src, "",
                                   [from |-> drag.wfrom, to |-> drag.wto], mv.target,
                                   drag.attached)
                        ELSE NoOp
    /\ UNCHANGED <<onAutoSaveProp, autoSaved, escaped, now, keys, ceVars, winVars>>

\* where the image was dragged to horizontally: the sign of finalOffset
Sides == {"left", "none", "right"}

\* mouseup of the gesture: saveImagePositioning(img, src, alt, 'inline',
\* finalOffset), which returns at once when the <img> is no longer inside
\* .cm-editor: the offset of the gesture is then dropped
ImageMouseUp(side) ==
    /\ drag.active
    /\ IF drag.attached
       THEN /\ DispatchContent(saveImagePositioning(doc, drag.src, drag.alt, "i"))
            /\ lastOp' = ImgOp("hdrag", drag, drag.alt, drag.src, side,
                               [from |-> drag.wfrom, to |-> drag.wto], 0, FALSE)
       ELSE /\ UNCHANGED <<doc, selFrom, selTo, deco, onChangeText, saveTimer>>
            /\ lastOp' = ImgOp("dropped", drag, drag.alt, drag.src, side,
                               [from |-> drag.wfrom, to |-> drag.wto], 0, FALSE)
    /\ drag' = [NoDrag EXCEPT !.n = drag.n + 1, !.v = drag.v]
    /\ UNCHANGED <<onAutoSaveProp, autoSaved, escaped, now, keys, ceVars, winVars>>

\* The same listeners with the pixels followed (lengths in px).

\* span.style.margin = '0 8px': the left margin of a widget without an offset
DefaultMargin == 8

\* minSize and maxSize of the resize listener
minSize == 50
maxSize == 800

\* maxOffset = window.innerWidth * 0.3 (the widths of the model are multiples
\* of 10)
maxOffset(innerWidth) == (innerWidth * 3) \div 10

\* Math.max(lo, Math.min(hi, x))
Constrain(lo, hi, x) == IF x < lo THEN lo ELSE IF x > hi THEN hi ELSE x

\* bound: the number of pointer events, after the first, of a run of SpecPixels
MaxPixelOps == 4

\* toDOM of the widget that the decoration pass builds for an image whose
\* annotation holds offset (0 when it has no pos/inline annotation): a nonzero
\* offset becomes the left margin
BuiltMargin(offset) == IF offset # 0 THEN offset ELSE DefaultMargin

\* bound: the horizontal distances of the pointer from where the gesture began
DeltaXs == {-500, -100, 100}

\* the mousemove listener of toDOM below the vertical threshold: the left
\* margin follows the pointer, constrained to +-maxOffset
PixelMouseMove(deltaX) ==
    /\ drag.active
    /\ drag.n < MaxPixelOps
    /\ drag' = [drag EXCEPT
                   !.n = drag.n + 1,
                   !.px = [drag.px EXCEPT !.marginLeft =
                              Constrain(-maxOffset(drag.px.innerWidth),
                                        maxOffset(drag.px.innerWidth),
                                        drag.px.startOffset + deltaX)]]
    /\ lastOp' = NoOp
    /\ UNCHANGED <<doc, selFrom, selTo, deco, onChangeText, saveTimer, onAutoSaveProp,
                   autoSaved, escaped, now, keys, ceVars, winVars>>

\* the mouseup listener of toDOM: finalOffset = parseFloat(marginLeft) || 0 is
\* saved; the decoration pass of the dispatch builds the widget anew from the
\* annotation
PixelMouseUp ==
    /\ drag.active
    /\ DispatchContent(saveImagePositioning(doc, drag.src, drag.alt, "i"))
    /\ lastOp' = [op |-> "offset", before |-> doc, from |-> drag.from, to |-> drag.to,
                  checked |-> FALSE, offset |-> drag.px.marginLeft,
                  innerWidth |-> drag.px.innerWidth]
    /\ drag' = [NoDrag EXCEPT
                   !.n = drag.n + 1,
                   !.px = [drag.px EXCEPT !.marginLeft = BuiltMargin(drag.px.marginLeft),
                                          !.startOffset = 0]]
    /\ UNCHANGED <<onAutoSaveProp, autoSaved, escaped, now, keys, ceVars, winVars>>

\* the four resize handles
Handles == {"nw", "ne", "sw", "se"}

\* mousedown on a resize handle: startWidth = img.offsetWidth, startHeight =
\* img.offsetHeight
PixelResizeDown(w, handle) ==
    /\ w \in ImageWidgets
    /\ ~drag.active
    /\ drag.px.resizing = "none"
    /\ drag.n < MaxPixelOps
    /\ drag' = [drag EXCEPT
                   !.alt = WidgetAlt(w), !.src = WidgetSrc(w),
                   !.n = drag.n + 1,
                   !.px = [drag.px EXCEPT !.resizing = handle,
                                          !.startWidth = drag.px.width,
                                          !.startHeight = drag.px.height]]
    /\ lastOp' = NoOp
    /\ UNCHANGED <<doc, selFrom, selTo, deco, onChangeText, saveTimer, onAutoSaveProp,
                   autoSaved, escaped, now, keys, ceVars, winVars>>

\* bound: the distances of the pointer from where the resize began
ResizeDeltas == {-500, 100}

\* the mousemove listener of the handle: the new size by handle position,
\* constrained to [minSize, maxSize]
PixelResizeMove(deltaX, deltaY) ==
    /\ drag.px.resizing # "none"
    /\ drag.n < MaxPixelOps
    /\ LET h == drag.px.resizing
           newWidth == IF h \in {"se", "ne"} THEN drag.px.startWidth + deltaX
                       ELSE drag.px.startWidth - deltaX
           newHeight == IF h \in {"se", "sw"} THEN drag.px.startHeight + deltaY
                        ELSE drag.px.startHeight - deltaY
       IN  drag' = [drag EXCEPT
                      !.n = drag.n + 1,
                      !.px = [drag.px EXCEPT
                                 !.width = Constrain(minSize, maxSize, newWidth),
                                 !.height = Constrain(minSize, maxSize, newHeight)]]
    /\ lastOp' = NoOp
    /\ UNCHANGED <<doc, selFrom, selTo, deco, onChangeText, saveTimer, onAutoSaveProp,
                   autoSaved, escaped, now, keys, ceVars, winVars>>

\* the mouseup listener of the handle: saveImageSize(img, img.offsetWidth,
\* img.offsetHeight); the size annotation replaces every annotation of the
\* token, so the widget built next has the saved size and no offset
PixelResizeUp ==
    /\ drag.px.resizing # "none"
    /\ DispatchContent(saveImageSize(doc, drag.src, drag.alt))
    /\ lastOp' = [op |-> "size", before |-> doc, from |-> 0, to |-> 0, checked |-> FALSE,
                  width |-> drag.px.width, height |-> drag.px.height]
    /\ drag' = [NoDrag EXCEPT
                   !.n = drag.n + 1,
                   !.px = [drag.px EXCEPT !.marginLeft = DefaultMargin,
                                          !.resizing = "none",
                                          !.startWidth = 0, !.startHeight = 0]]
    /\ UNCHANGED <<onAutoSaveProp, autoSaved, escaped, now, keys, ceVars, winVars>>

----------------------------------------------------------------------------
(* ContentEditableEditor: the DOM tree, rendering and serialization *)

\* The children of the editor root.  A text node holds its data in s, an
\* <img> its data-markdown attribute, a math wrapper (.ce-math) its data-latex
\* attribute; block tells span.ce-math-inline from div.ce-math-block.
TextNode(data) == [t |-> "text", s |-> data, block |-> FALSE]

Br == [t |-> "br", s |-> <<>>, block |-> FALSE]

ImgNoMarkdown(md) == [t |-> "img", s |-> <<>>, block |-> FALSE]

Img(md) == [t |-> "img", s |-> md, block |-> FALSE]

\* appendText: no node for the empty string
appendText(text) == IF text = <<>> THEN <<>> ELSE <<TextNode(text)>>

\* the exec loop of imageRegex over one line, appending text and <img> nodes
RECURSIVE renderLine(_, _, _)
renderLine(line, lastIndex, searchFrom) ==
    LET i == IndexOf(line, <<"!", "[">>, searchFrom)
        jk == imgTokenAt(line, i)
    IN  IF i = -1 THEN appendText(Slice(line, lastIndex, Len(line)))
        ELSE IF jk[2] = -1 THEN renderLine(line, lastIndex, i + 1)
        ELSE appendText(Slice(line, lastIndex, i))
                 \o <<Img(Slice(line, i, jk[2] + 1))>>
                 \o renderLine(line, jk[2] + 1, jk[2] + 1)

\* md.split(/\n/) and the forEach over the lines, from offset from
RECURSIVE renderMarkdownFrom(_, _)
renderMarkdownFrom(md, from) ==
    LET e == IndexOf(md, <<"\n">>, from)
    IN  IF e = -1 THEN renderLine(Slice(md, from, Len(md)), 0, 0)
        ELSE renderLine(Slice(md, from, e), 0, 0) \o <<Br>>
                 \o renderMarkdownFrom(md, e + 1)

renderMarkdownInto(md) == renderMarkdownFrom(md, 0)

IsLetter(c) == c \in {"a", "b", "s"}

\* katexRenderToString(latex), set as the wrapper's innerHTML: the data of the
\* text nodes of the markup.  KaTeX typesets each letter of a formula as a
\* span holding that letter; the glyphs of other characters are left out.
katexText(latex) == SelectSeq(latex, IsLetter)

renderMath(latex, displayMode) == [t |-> "math", s |-> latex, block |-> displayMode]

\* what traverse(n) pushes for one child of the root: pushForElement, then the
\* descent into the children of every element but <img>
traverse(n) ==
    CASE n.t = "text" -> n.s
      [] n.t = "br" -> <<"\n">>
      [] n.t = "img" -> n.s
      [] n.t = "math" ->
             (IF n.block THEN <<"$", "$">> \o n.s \o <<"$", "$">>
                         ELSE <<"$">> \o n.s \o <<"$">>)
                 \o katexText(n.s)

RECURSIVE JoinParts(_)
JoinParts(ns) == IF ns = <<>> THEN <<>> ELSE traverse(Head(ns)) \o JoinParts(Tail(ns))

\* .replace(/\r\n?/g, '\n')
RECURSIVE NormalizeNewlines(_)
NormalizeNewlines(text) ==
    IF text = <<>> THEN <<>>
    ELSE IF Head(text) = "\r"
         THEN <<"\n">> \o NormalizeNewlines(
                  IF Len(text) > 1 /\ text[2] = "\n" THEN SubSeq(text, 3, Len(text))
                  ELSE Tail(text))
         ELSE <<Head(text)>> \o NormalizeNewlines(Tail(text))

serializeDomToMarkdown(ns) == NormalizeNewlines(JoinParts(ns))

\* findMathRegions: the regions found from offset i on, as a set of
\* [start, end, display]; an unmatched opening delimiter ends the search
\* text[k] === '$' && !isEscaped(k)
IsDollar(text, k) == k < Len(text) /\ At(text, k) = "$" /\ ~isEsc(text, k)

\* the inner loop of the block branch from c on: the offset of the closing
\* pair, or the length of the text when there is none
RECURSIVE blockClose(_, _)
blockClose(text, c) ==
    IF c >= Len(text) THEN Len(text)
    ELSE IF IsDollar(text, c) /\ IsDollar(text, c + 1) THEN c
    ELSE blockClose(text, c + 1)

\* the inner loop of the inline branch from c on
RECURSIVE inlineClose(_, _)
inlineClose(text, c) ==
    IF c >= Len(text) THEN Len(text)
    ELSE IF IsDollar(text, c) THEN c
    ELSE inlineClose(text, c + 1)

RECURSIVE findMathRegionsFrom(_, _)
findMathRegionsFrom(text, i) ==
    IF i >= Len(text) THEN {}
    ELSE IF ~IsDollar(text, i) THEN findMathRegionsFrom(text, i + 1)
    ELSE IF IsDollar(text, i + 1)
         THEN IF blockClose(text, i + 2) >= Len(text) THEN {}
              ELSE {[start |-> i, end |-> blockClose(text, i + 2) + 2, display |-> TRUE]}
                       \cup findMathRegionsFrom(text, blockClose(text, i + 2) + 2)
         ELSE IF inlineClose(text, i + 1) >= Len(text) THEN {}
              ELSE {[start |-> i, end |-> inlineClose(text, i + 1) + 1, display |-> FALSE]}
                       \cup findMathRegionsFrom(text, inlineClose(text, i + 1) + 1)

findMathRegions(text) == findMathRegionsFrom(text, 0)

\* the same loop: the offset of the opener at which the search stops
\* ("unmatched; stop searching"), or -1
RECURSIVE unmatchedFrom(_, _)
unmatchedFrom(text, i) ==
    IF i >= Len(text) THEN -1
    ELSE IF ~IsDollar(text, i) THEN unmatchedFrom(text, i + 1)
    ELSE IF IsDollar(text, i + 1)
         THEN IF blockClose(text, i + 2) >= Len(text) THEN i
              ELSE unmatchedFrom(text, blockClose(text, i + 2) + 2)
         ELSE IF inlineClose(text, i + 1) >= Len(text) THEN i
              ELSE unmatchedFrom(text, inlineClose(text, i + 1) + 1)

\* regions.some(r => idx > r.start && idx < r.end)
caretInsideMath(text, idx) ==
    \E r \in findMathRegions(text) : idx > r.start /\ idx < r.end

NotAfterBackslash(text, p) == p = 0 \/ At(text, p - 1) # "\\"

\* inlineRe = /(?<!\\)\$([^$\n]+?)(?<!\\)\$/ tried at p: the offset of the
\* closing dollar, or -1
inlineReAt(text, p) ==
    LET q == IndexOf(text, <<"$">>, p + 1)
    IN  IF /\ p < Len(text) /\ At(text, p) = "$" /\ NotAfterBackslash(text, p)
           /\ q >= p + 2
           /\ \A k \in (p + 1)..(q - 1) : At(text, k) # "\n"
           /\ At(text, q - 1) # "\\"
        THEN q ELSE -1

\* blockRe = /(?<!\\)\$\$([^$]+?)(?<!\\)\$\$/ tried at p: the offset of the
\* closing pair, or -1
blockReAt(text, p) ==
    LET q == IndexOf(text, <<"$">>, p + 2)
    IN  IF /\ StartsWith(text, <<"$", "$">>, p) /\ NotAfterBackslash(text, p)
           /\ q >= p + 3
           /\ StartsWith(text, <<"$", "$">>, q)
           /\ At(text, q - 1) # "\\"
        THEN q ELSE -1

\* re.exec(text) with re.lastIndex = idx: the index of the first match, or -1
RECURSIVE execFrom(_, _, _)
execFrom(text, isBlock, idx) ==
    IF idx >= Len(text) THEN -1
    ELSE IF (IF isBlock THEN blockReAt(text, idx) ELSE inlineReAt(text, idx)) # -1
         THEN idx
         ELSE execFrom(text, isBlock, idx + 1)

\* the segments of one text node from idx on, as the nodes of the fragment:
\* plain text, math wrappers, and a <br> after each block wrapper
RECURSIVE mathSegments(_, _)
mathSegments(text, idx) ==
    LET bm == execFrom(text, TRUE, idx)
        im == execFrom(text, FALSE, idx)
        useBlock == bm # -1 /\ (im = -1 \/ bm <= im)
        start == IF useBlock THEN bm ELSE im
        q == IF useBlock THEN blockReAt(text, bm) ELSE inlineReAt(text, im)
        end == IF useBlock THEN q + 2 ELSE q + 1
        latex == IF useBlock THEN Slice(text, start + 2, q) ELSE Slice(text, start + 1, q)
    IN  IF idx >= Len(text) THEN <<>>
        ELSE IF bm = -1 /\ im = -1 THEN appendText(Slice(text, idx, Len(text)))
        ELSE appendText(Slice(text, idx, start))
                 \o <<renderMath(latex, useBlock)>>
                 \o (IF useBlock THEN <<Br>> ELSE <<>>)
                 \o mathSegments(text, end)

\* the spans of one text node that the loop of convertMathInPlace turns into
\* math wrappers, from idx on: the set of <<start, end>>
RECURSIVE mathSpans(_, _)
mathSpans(text, idx) ==
    LET bm == execFrom(text, TRUE, idx)
        im == execFrom(text, FALSE, idx)
        useBlock == bm # -1 /\ (im = -1 \/ bm <= im)
        start == IF useBlock THEN bm ELSE im
        end == IF useBlock THEN blockReAt(text, bm) + 2 ELSE inlineReAt(text, im) + 1
    IN  IF idx >= Len(text) \/ (bm = -1 /\ im = -1) THEN {}
        ELSE {<<start, end>>} \cup mathSpans(text, end)

\* the selection: empty, collapsed in text node n at offset off, or collapsed
\* in the root element after its first off children
NoCaret == [at |-> "none", n |-> 0, off |-> 0]

InText(i, off) == [at |-> "text", n |-> i, off |-> off]

InRoot(k) == [at |-> "root", n |-> 0, off |-> k]

RECURSIVE Flatten(_)
Flatten(ss) == IF ss = <<>> THEN <<>> ELSE Head(ss) \o Flatten(Tail(ss))

\* parent.replaceChild(frag, node) for every node of toProcess: frags[i] holds
\* the fragment of node i, or the node itself when it is not processed.
\* Before(frags, i) is the number of nodes that end up in front of node i.
Before(frags, i) == Len(Flatten(SubSeq(frags, 1, i - 1)))

\* the live range of the selection after the replacements: a boundary point
\* inside a removed node moves to the root, behind the fragment
MovedCaret(ns, frags, c) ==
    IF c.at = "text"
    THEN IF frags[c.n] = <<ns[c.n]>> THEN InText(Before(frags, c.n) + 1, c.off)
         ELSE InRoot(Before(frags, c.n) + Len(frags[c.n]))
    ELSE IF c.at = "root" THEN InRoot(Before(frags, c.off + 1))
    ELSE c

MovedRef(frags, ref) == IF ref = 0 THEN 0 ELSE Before(frags, ref) + 1

\* imageRegex.test(textNode.data)
HasImage(text) == renderLine(text, 0, 0) # appendText(text)

imageFrags(ns) ==
    [i \in 1..Len(ns) |->
        IF ns[i].t = "text" /\ HasImage(ns[i].s) THEN renderLine(ns[i].s, 0, 0)
        ELSE <<ns[i]>>]

\* the nodes, the selection and the editing node after the replacements
Replaced(ns, frags, c, ref) ==
    [ns |-> Flatten(frags), c |-> MovedCaret(ns, frags, c), ref |-> MovedRef(frags, ref)]

convertImagesInPlace(ns, c, ref) == Replaced(ns, imageFrags(ns), c, ref)

\* inlineRe.test(data) || blockRe.test(data)
HasMath(text) == execFrom(text, FALSE, 0) # -1 \/ execFrom(text, TRUE, 0) # -1

mathFrags(ns, ref) ==
    [i \in 1..Len(ns) |->
        IF ns[i].t = "text" /\ i # ref /\ HasMath(ns[i].s) THEN mathSegments(ns[i].s, 0)
        ELSE <<ns[i]>>]

\* convertMathInPlace: it skips editingMathNodeRef.current
convertMathInPlace(ns, c, ref) == Replaced(ns, mathFrags(ns, ref), c, ref)

\* !data.trim()
IsBlank(data) == \A k \in 1..Len(data) : data[k] \in {" ", "\t", "\n", "\r"}

Skipped(n) == n.t = "br" \/ (n.t = "text" /\ IsBlank(n.s))

\* descendToFirst: a math wrapper has children (the KaTeX markup), so the
\* probe ends on a leaf of that markup, 0 here; other nodes are leaves
descendToFirst(ns, j) == IF j > Len(ns) \/ ns[j].t = "math" THEN 0 ELSE j

\* findNextSiblingNode(container, offset) and the descent: the index of the
\* probe among the children of the root, 0 when it is none of them
NextProbe(ns, c) ==
    IF c.at = "text"
    THEN IF c.off < Len(ns[c.n].s) THEN 0
         ELSE IF c.n = Len(ns) THEN descendToFirst(ns, 1)
         ELSE IF ns[c.n + 1].t = "text" THEN c.n + 1
         ELSE descendToFirst(ns, c.n + 1)
    ELSE IF c.off < Len(ns) THEN descendToFirst(ns, c.off + 1)
    ELSE descendToFirst(ns, 1)

\* the loop that skips <br> and whitespace-only text nodes, forward
RECURSIVE SkipForward(_, _)
SkipForward(ns, j) ==
    IF j = 0 \/ j > Len(ns) THEN 0
    ELSE IF Skipped(ns[j]) THEN SkipForward(ns, j + 1)
    ELSE j

\* findPrevSiblingNode(container, offset): 0 when it is null or the root
PrevProbe(c) ==
    IF c.at = "text"
    THEN IF c.off > 0 \/ c.n <= 1 THEN 0 ELSE c.n - 1
    ELSE c.off

\* the backward loop: childNodes[Math.max(0, index - 1)] is the first child
\* again when the probe is the first child, so the loop never ends (-1)
RECURSIVE SkipBackward(_, _)
SkipBackward(ns, j) ==
    IF j = 0 THEN 0
    ELSE IF Skipped(ns[j]) THEN (IF j = 1 THEN -1 ELSE SkipBackward(ns, j - 1))
    ELSE j

\* the raw markdown a math wrapper is revealed as
RevealedText(n) ==
    TextNode(IF n.block THEN <<"$", "$">> \o n.s \o <<"$", "$">>
                        ELSE <<"$">> \o n.s \o <<"$">>)

\* the probe after the caret is a math wrapper: it is replaced by its raw
\* markdown, with the caret in front of it
RevealNext(ns, c, ref, nx) ==
    IF nx # 0 /\ ns[nx].t = "math"
    THEN [ns |-> [ns EXCEPT ![nx] = RevealedText(ns[nx])], c |-> InText(nx, 0), ref |-> nx]
    ELSE [ns |-> ns, c |-> c, ref |-> ref]

\* the probe before the caret is a math wrapper: it is replaced by its raw
\* markdown, with the caret behind it; pv = -1 when the loop never ends
RevealPrev(r, pv) ==
    IF pv = -1 THEN [ns |-> r.ns, c |-> r.c, ref |-> r.ref, hung |-> TRUE]
    ELSE IF pv > 0 /\ r.ns[pv].t = "math"
         THEN [ns |-> [r.ns EXCEPT ![pv] = RevealedText(r.ns[pv])],
               c |-> InText(pv, Len(RevealedText(r.ns[pv]).s)),
               ref |-> pv,
               hung |-> FALSE]
         ELSE [ns |-> r.ns, c |-> r.c, ref |-> r.ref, hung |-> FALSE]

\* the second half works on the tree the first half left, from the container
\* and offset read at the start
HighlightPrev(r, c) == RevealPrev(r, SkipBackward(r.ns, PrevProbe(c)))

\* updateDeletionFocusHighlight(root): the nodes, the selection and
\* editingMathNodeRef.current after it; hung when the backward loop never ends
updateDeletionFocusHighlight(ns, c, ref) ==
    IF c.at = "none" THEN [ns |-> ns, c |-> c, ref |-> ref, hung |-> FALSE]
    ELSE HighlightPrev(RevealNext(ns, c, ref, SkipForward(ns, NextProbe(ns, c))), c)

----------------------------------------------------------------------------
(* ContentEditableEditor: the event handlers and the two timers *)

NoSaveTimeout == [active |-> FALSE, text |-> <<>>]

NoSave == [called |-> FALSE, arg |-> <<>>, last |-> <<>>, afterCancel |-> FALSE]

\* bound: the number of keys pressed in a run
MaxKeys == 2

\* bound: the number of clicks of a run
MaxClicks == 1

\* the editor is not mounted
CEUnmounted ==
    /\ value = <<>>
    /\ nodes = <<>>
    /\ caret = NoCaret
    /\ editingMathNodeRef = 0
    /\ lastKeyRef = "null"
    /\ keyDown = "none"
    /\ mathRenderTimeout = "none"
    /\ saveTimeout = NoSaveTimeout
    /\ ceOnChange = NoCall
    /\ ceAutoSaved = NoSave
    /\ ceEvent = [ev |-> "none", keys |-> 0, clicks |-> 0, before |-> <<>>, text |-> <<>>,
                  key |-> "none", marker |-> FALSE]
    /\ hung = FALSE

\* the history record of a handler: mutated tells whether the handler took a
\* changed document, text is the markdown of the last such change, key is
\* the key of the most recent keystroke, and marker tells whether the handler
\* called insertCaretMarker
Event(ev, mutated, ns) ==
    [ev |-> IF ceEvent.ev \in {"unmount", "cancel"} THEN ceEvent.ev ELSE ev,
     keys |-> IF ev \in {"input", "enter"} THEN ceEvent.keys + 1 ELSE ceEvent.keys,
     clicks |-> IF ev = "mouseup" THEN ceEvent.clicks + 1 ELSE ceEvent.clicks,
     before |-> IF ev = "math" THEN serializeDomToMarkdown(nodes) ELSE <<>>,
     text |-> IF mutated THEN serializeDomToMarkdown(ns) ELSE ceEvent.text,
     key |-> ceEvent.key,
     marker |-> FALSE]

\* debouncedAutoSave(newValue): clearTimeout and setTimeout(..., 1000)
debouncedAutoSave(newValue) == [active |-> TRUE, text |-> newValue]

\* the end of handleKeyUp and handleMouseUp: the caret has left the raw math
\* node, so the editing state is cleared, a render is scheduled in 150 ms and
\* the markdown is propagated
Left(u) ==
    /\ ~u.hung
    /\ u.ref # 0
    /\ u.c.at # "none"
    /\ ~(u.c.at = "text" /\ u.c.n = u.ref)

LeaveMath(u) ==
    LET left == Left(u)
        md == serializeDomToMarkdown(u.ns)
    IN  /\ nodes' = u.ns
        /\ caret' = u.c
        /\ hung' = u.hung
        /\ editingMathNodeRef' = IF left THEN 0 ELSE u.ref
        /\ mathRenderTimeout' = IF left THEN "leave" ELSE mathRenderTimeout
        /\ ceOnChange' = IF left THEN md ELSE ceOnChange
        /\ saveTimeout' = IF left THEN debouncedAutoSave(md) ELSE saveTimeout

\* where a click can put the caret: in a text node, or between two children
\* of the root neither of which is a text node
ClickTargets ==
    UNION {{InText(i, off) : off \in 0..Len(nodes[i].s)} :
              i \in {j \in 1..Len(nodes) : nodes[j].t = "text"}}
    \cup {InRoot(k) : k \in {j \in 0..Len(nodes) :
                                /\ j = 0 \/ nodes[j].t # "text"
                                /\ j = Len(nodes) \/ nodes[j + 1].t # "text"}}

\* a click: the browser moves the caret, then handleMouseUp runs
handleMouseUp(c) ==
    /\ ~hung
    /\ ceEvent.ev \notin {"unmount", "cancel"}
    /\ keyDown = "none"
    /\ ceEvent.clicks < MaxClicks
    /\ LET u == updateDeletionFocusHighlight(nodes, c, editingMathNodeRef)
       IN  LeaveMath(u) /\ ceEvent' = Event("mouseup", Left(u), u.ns)
    /\ UNCHANGED <<value, lastKeyRef, keyDown, ceAutoSaved, cmVars, winVars, now>>

\* handleKeyUp: the highlight is refreshed for character keys only
handleKeyUp ==
    /\ ~hung
    /\ keyDown # "none"
    /\ LET u == IF keyDown \in {"Enter", "Backspace"}
                THEN [ns |-> nodes, c |-> caret, ref |-> editingMathNodeRef,
                      hung |-> FALSE]
                ELSE updateDeletionFocusHighlight(nodes, caret, editingMathNodeRef)
       IN  LeaveMath(u) /\ ceEvent' = Event("other", Left(u), u.ns)
    /\ keyDown' = "none"
    /\ UNCHANGED <<value, lastKeyRef, ceAutoSaved, cmVars, winVars, now>>

\* the character ch goes into text node i at offset off
InsertInto(ns, i, off, ref, ch) ==
    [ns |-> [ns EXCEPT ![i].s = Slice(ns[i].s, 0, off) \o <<ch>>
                                    \o Slice(ns[i].s, off, Len(ns[i].s))],
     c |-> InText(i, off + 1),
     ref |-> ref]

\* the browser's default action for a character key: the character goes into
\* the text node of the caret, into a text node next to a caret in the root,
\* or into a new text node
InsertChar(ns, c, ref, ch) ==
    IF c.at = "text" THEN InsertInto(ns, c.n, c.off, ref, ch)
    ELSE IF c.off >= 1 /\ ns[c.off].t = "text"
         THEN InsertInto(ns, c.off, Len(ns[c.off].s), ref, ch)
    ELSE IF c.off < Len(ns) /\ ns[c.off + 1].t = "text"
         THEN InsertInto(ns, c.off + 1, 0, ref, ch)
    ELSE [ns |-> SubSeq(ns, 1, c.off) \o <<TextNode(<<ch>>)>>
                     \o SubSeq(ns, c.off + 1, Len(ns)),
          c |-> InText(c.off + 1, 1),
          ref |-> IF ref > c.off THEN ref + 1 ELSE ref]

\* the private-use character U+E000, one character of a text
CARET_MARK == "U+E000"

\* insertCaretMarker: range.insertNode splits the text node at the caret and
\* puts the marker, a text node of its own, between the two halves
insertCaretMarker(ns, c) ==
    SubSeq(ns, 1, c.n - 1)
        \o <<TextNode(Slice(ns[c.n].s, 0, c.off)),
             TextNode(<<CARET_MARK>>),
             TextNode(Slice(ns[c.n].s, c.off, Len(ns[c.n].s)))>>
        \o SubSeq(ns, c.n + 1, Len(ns))

\* restoreCaretFromMarker leaving the marker in the tree
markerKept(r) == r

\* restoreCaretFromMarker: nothing remains of the marker's data once the
\* character is taken out, so the marker is removed from its parent; the range
\* that is then set on the removed node is not added to the selection
restoreCaretFromMarker(r) ==
    [r EXCEPT !.ns = SelectSeq(r.ns, LAMBDA n : ~(n.t = "text" /\ n.s = <<CARET_MARK>>))]

\* skipTransforms
skipTransforms(ns, c, ref) ==
    ref # 0 \/ (c.at = "text" /\ caretInsideMath(ns[c.n].s, c.off))

\* convertImagesInPlace, between insertCaretMarker and restoreCaretFromMarker
\* unless the key was Backspace
ImagesConverted(e, key, skip) ==
    IF skip THEN e
    ELSE IF key # "Backspace"
         THEN restoreCaretFromMarker(
                  convertImagesInPlace(insertCaretMarker(e.ns, e.c), NoCaret, e.ref))
         ELSE convertImagesInPlace(e.ns, e.c, e.ref)

Highlighted(r) == updateDeletionFocusHighlight(r.ns, r.c, r.ref)

\* the end of handleInput: u is the tree after updateDeletionFocusHighlight
InputHandled(u, key, skip, markdownNow) ==
    /\ nodes' = u.ns
    /\ caret' = u.c
    /\ editingMathNodeRef' = u.ref
    /\ hung' = u.hung
    /\ mathRenderTimeout' = IF skip THEN "none" ELSE "input"
    /\ ceOnChange' = IF skip \/ u.hung THEN ceOnChange ELSE markdownNow
    /\ saveTimeout' = IF skip \/ u.hung THEN saveTimeout
                      ELSE debouncedAutoSave(markdownNow)
    /\ lastKeyRef' = IF u.hung THEN key ELSE "null"
    /\ keyDown' = key
    /\ ceEvent' = [Event("input", TRUE, u.ns) EXCEPT !.key = key,
                                                      !.marker = ~skip /\ key # "Backspace"]
    /\ UNCHANGED <<value, ceAutoSaved, cmVars, winVars, now>>

InputSerialized(u, key, skip) ==
    InputHandled(u, key, skip, serializeDomToMarkdown(u.ns))

InputTransformed(e, key, skip) ==
    InputSerialized(Highlighted(ImagesConverted(e, key, skip)), key, skip)

\* handleInput after the browser changed the tree to e.ns with the caret e.c;
\* key is lastKeyRef.current
handleInput(e, key) == InputTransformed(e, key, skipTransforms(e.ns, e.c, e.ref))

\* a character key: handleKeyDown records it, the browser inserts it
CEKey(ch) ==
    /\ ~hung
    /\ keyDown = "none"
    /\ caret.at # "none"
    /\ ceEvent.keys < MaxKeys
    /\ handleInput(InsertChar(nodes, caret, editingMathNodeRef, ch), ch)

\* Backspace inside a text node that keeps at least one character
CEBackspace ==
    /\ ~hung
    /\ keyDown = "none"
    /\ caret.at = "text"
    /\ caret.off > 0
    /\ Len(nodes[caret.n].s) > 1
    /\ ceEvent.keys < MaxKeys
    /\ handleInput([ns |-> [nodes EXCEPT ![caret.n].s =
                               Slice(nodes[caret.n].s, 0, caret.off - 1)
                                   \o Slice(nodes[caret.n].s, caret.off,
                                            Len(nodes[caret.n].s))],
                    c |-> InText(caret.n, caret.off - 1),
                    ref |-> editingMathNodeRef],
                   "Backspace")

\* range.insertNode(br) and the empty text node behind it
InsertBreak(ns, c, ref) ==
    IF c.at = "text"
    THEN [ns |-> SubSeq(ns, 1, c.n - 1)
                     \o <<TextNode(Slice(ns[c.n].s, 0, c.off)), Br, TextNode(<<>>),
                          TextNode(Slice(ns[c.n].s, c.off, Len(ns[c.n].s)))>>
                     \o SubSeq(ns, c.n + 1, Len(ns)),
          c |-> InText(c.n + 2, 0),
          ref |-> IF ref > c.n THEN ref + 3 ELSE ref]
    ELSE [ns |-> SubSeq(ns, 1, c.off) \o <<Br, TextNode(<<>>)>>
                     \o SubSeq(ns, c.off + 1, Len(ns)),
          c |-> InText(c.off + 2, 0),
          ref |-> IF ref > c.off THEN ref + 2 ELSE ref]

\* handleKeyDown for Enter
handleKeyDownEnter ==
    /\ ~hung
    /\ keyDown = "none"
    /\ caret.at # "none"
    /\ ceEvent.keys < MaxKeys
    /\ LET e == InsertBreak(nodes, caret, editingMathNodeRef)
           markdownNow == serializeDomToMarkdown(e.ns)
           u == updateDeletionFocusHighlight(e.ns, e.c, e.ref)
       IN  /\ nodes' = u.ns
           /\ caret' = u.c
           /\ editingMathNodeRef' = u.ref
           /\ hung' = u.hung
           /\ ceOnChange' = markdownNow
           /\ saveTimeout' = debouncedAutoSave(markdownNow)
           /\ lastKeyRef' = IF u.hung THEN lastKeyRef ELSE "Enter"
           /\ ceEvent' = [Event("enter", TRUE, e.ns) EXCEPT !.key = "Enter"]
    /\ keyDown' = "Enter"
    /\ UNCHANGED <<value, mathRenderTimeout, ceAutoSaved, cmVars, winVars, now>>

\* the callback of mathRenderTimeoutRef: the one set by handleInput gives up
\* when a delimiter was typed last, when the caret is inside a math region or
\* when a raw math node is being edited
MathRenderTimer ==
    /\ ~hung
    /\ mathRenderTimeout # "none"
    /\ LET givesUp == /\ mathRenderTimeout = "input"
                      /\ \/ lastKeyRef \in {"$", "\\"}
                         \/ caret.at = "text"
                                /\ caretInsideMath(nodes[caret.n].s, caret.off)
                         \/ editingMathNodeRef # 0
                      \/ ceEvent.ev \in {"unmount", "cancel"}
           cv == convertMathInPlace(nodes, caret, editingMathNodeRef)
       IN  /\ nodes' = IF givesUp THEN nodes ELSE cv.ns
           /\ caret' = IF givesUp THEN caret ELSE cv.c
           /\ editingMathNodeRef' = IF givesUp THEN editingMathNodeRef ELSE cv.ref
           /\ ceEvent' = Event(IF givesUp THEN "other" ELSE "math", FALSE, nodes)
    /\ mathRenderTimeout' = "none"
    /\ UNCHANGED <<value, lastKeyRef, keyDown, saveTimeout, ceOnChange, ceAutoSaved,
                   hung, cmVars, winVars, now>>

\* the component unmounts: the cleanup effect clears the pending save timeout
\* and nothing else; React removes the editor element, so editorRef.current
\* is null for the callbacks that run later
CEUnmount ==
    /\ ~hung
    /\ ceEvent.ev \notin {"none", "unmount"}
    /\ saveTimeout' = NoSaveTimeout
    /\ nodes' = <<>>
    /\ caret' = NoCaret
    /\ keyDown' = "none"
    /\ ceEvent' = [ceEvent EXCEPT !.ev = "unmount", !.before = <<>>]
    /\ UNCHANGED <<value, editingMathNodeRef, lastKeyRef, mathRenderTimeout, ceOnChange,
                   ceAutoSaved, hung, cmVars, winVars, now>>

\* handleCancel, from the Cancel button or the Escape key: the edit value is
\* reset and isEditing is cleared, so React removes the editor element; the
\* component stays mounted and no timeout is cleared
handleCancel ==
    /\ ~hung
    /\ ceEvent.ev \notin {"none", "unmount", "cancel"}
    /\ nodes' = <<>>
    /\ caret' = NoCaret
    /\ keyDown' = "none"
    /\ ceEvent' = [ceEvent EXCEPT !.ev = "cancel", !.before = <<>>]
    /\ UNCHANGED <<value, editingMathNodeRef, lastKeyRef, mathRenderTimeout, saveTimeout,
                   ceOnChange, ceAutoSaved, hung, cmVars, winVars, now>>

\* the callback of saveTimeoutRef: onAutoSave(newValue) unless newValue is the
\* value prop
SaveTimer ==
    /\ ~hung
    /\ saveTimeout.active
    /\ ceAutoSaved' = IF saveTimeout.text # value
                      THEN [called |-> TRUE, arg |-> saveTimeout.text,
                            last |-> ceEvent.text,
                            afterCancel |-> ceEvent.ev = "cancel"]
                      ELSE ceAutoSaved
    /\ saveTimeout' = NoSaveTimeout
    /\ ceEvent' = Event("other", FALSE, nodes)
    /\ UNCHANGED <<value, nodes, caret, editingMathNodeRef, lastKeyRef, keyDown,
                   mathRenderTimeout, ceOnChange, hung, cmVars, winVars, now>>

----------------------------------------------------------------------------
(* Specification SpecDecor: the decoration pass over bounded documents,     *)
(* with selection changes and checkbox toggles                              *)

\* bound: the number of tokens an initial document is built from
MaxTokens == 2

DecorTokens ==
    { <<"-", " ", "[", " ", "]">>, <<"\n", "-", " ", "[", "x", "]">>,
      <<"\n">>, <<"a">>,
      <<"$">>, <<"$", "a", "$">>, <<"$", "$", "a", "$", "$">>,
      <<"*", "*", "a", "*", "*">>, <<"*", "a", "*">>,
      <<"#", " ">>,
      <<"!", "[", "a", "]", "(", "s", ")">> }

RECURSIVE TokenDocs(_)
TokenDocs(n) ==
    IF n = 0 THEN {<<>>}
    ELSE LET prev == TokenDocs(n - 1)
         IN  prev \cup {d \o t : d \in prev, t \in DecorTokens}

InitDecor ==
    /\ doc \in TokenDocs(MaxTokens)
    /\ selFrom = 0
    /\ selTo = 0
    /\ deco = decorateDoc(doc, 0, 0)
    /\ onChangeText = NoCall
    /\ onAutoSaveProp = FALSE
    /\ saveTimer = NoTimer
    /\ autoSaved = <<>>
    /\ escaped = "none"
    /\ drag = NoDrag
    /\ now = 0
    /\ keys = NoKeys
    /\ lastOp = NoOp
    /\ CEUnmounted
    /\ OnlyInstance

\* the selections the user makes: ArrowRight and ArrowLeft (a caret, or the
\* collapse of a range), Shift+ArrowRight from a caret, and select-all
UserSelections ==
    {<<selTo + 1, selTo + 1>>, <<selFrom - 1, selFrom - 1>>, <<0, Len(doc)>>}
        \cup (IF selTo = selFrom THEN {<<selFrom, selTo + 1>>} ELSE {})

NextDecor ==
    \/ \E m \in UserSelections : CMSelect(m[1], m[2])
    \/ \E w \in deco : toggleCheckbox(w)
    \/ \E m \in UserSelections : \E k \in 0..Len(doc) : CMSelectThrowing(m[1], m[2], k)

SpecDecor == InitDecor /\ [][NextDecor]_vars

----------------------------------------------------------------------------
(* Regions of one pass, as the scanner finds them, and whether the          *)
(* DecorationSet renders them                                               *)

CaretOutside(s, e) == selFrom < s \/ selFrom > e

Has(kind, what, from, to) ==
    \E x \in deco : x.kind = kind /\ x.what = what /\ x.from = from /\ x.to = to

\* the line is shown as a ChecklistWidget
ShownAsChecklist(ln) == Has("replace", "checklist", ln.from, ln.to)

MathRendered(ln, m, block) ==
    Has("replace", MathWhat(block), ln.from + m[1], ln.from + m[2])

BoldRendered(ln, m) ==
    /\ Has("replace", "boldmark", ln.from + m[1], ln.from + m[1] + 2)
    /\ Has("replace", "boldmark", ln.from + m[2] - 2, ln.from + m[2])
    /\ Has("mark", "strong", ln.from + m[1] + 2, ln.from + m[2] - 2)

ItalicRendered(ln, m) ==
    /\ Has("replace", "italicmark", ln.from + m[1], ln.from + m[1] + 1)
    /\ Has("replace", "italicmark", ln.from + m[2] - 1, ln.from + m[2])
    /\ Has("mark", "em", ln.from + m[1] + 1, ln.from + m[2] - 1)

ImageRendered(ln, m) == Has("replace", "image", ln.from + m.index, ln.from + m.end)

C3_ImagesAlwaysRendered ==
    \A ln \in Lines(doc) : \A m \in imgRe(LineText(doc, ln)) : ImageRendered(ln, m)

\* C4: a heading, blockquote, list or ordered-list marker that the caret is
\* inside of, or at a boundary of, gets no hide decoration and no bullet or
\* number widget.
C4_MarkerRawAtCaret ==
    \A ln \in Lines(doc) :
        LET text == LineText(doc, ln)
            Touches(n) == n > 0 /\ selFrom >= ln.from /\ selFrom <= ln.from + n
        IN  /\ Touches(headingMarkerLen(text)) =>
                   ~Has("replace", "heading", ln.from, ln.from + headingMarkerLen(text))
            /\ Touches(bqMarkerLen(text)) =>
                   ~Has("replace", "blockquote", ln.from, ln.from + bqMarkerLen(text))
            /\ Touches(ulMarkerLen(text)) =>
                   /\ ~Has("replace", "ul", ln.from, ln.from + ulMarkerLen(text))
                   /\ ~Has("widget", "bullet", ln.from, ln.from)
            /\ Touches(olMarkerLen(text)) =>
                   /\ ~Has("replace", "ol", ln.from, ln.from + olMarkerLen(text))
                   /\ ~Has("widget", "olnum", ln.from, ln.from)

\* C5: a non-empty selection that overlaps the span of a math, bold, italic or
\* checklist region keeps that region raw.
C5_RangeKeepsRaw ==
    selFrom < selTo =>
        \A ln \in Lines(doc) :
            LET text == LineText(doc, ln)
                Overlaps(s, e) == selFrom < e /\ selTo > s
            IN  /\ (checklistRe(text) /\ Overlaps(ln.from, ln.to)) => ~ShownAsChecklist(ln)
                /\ \A b \in BOOLEAN : \A m \in scanMath(text, b) :
                       Overlaps(ln.from + m[1], ln.from + m[2]) => ~MathRendered(ln, m, b)
                /\ \A m \in boldRe(text) :
                       Overlaps(ln.from + m[1], ln.from + m[2]) => ~BoldRendered(ln, m)
                /\ \A m \in italicRe(text) :
                       Overlaps(ln.from + m[1], ln.from + m[2]) => ~ItalicRendered(ln, m)

\* C8: a checkbox toggle changes exactly one character of the document: the
\* one between the brackets of the `- [ ]` token at the indentation of the line
\* the widget was built for, flipped between " " and "x"; the indentation, the
\* label and every other line are unchanged.
C8_ToggleFrame ==
    lastOp.op = "toggle" =>
        LET before == lastOp.before
            ln == CHOOSE l \in Lines(before) : l.from = lastOp.from
            box == ln.from + ChecklistIndent(LineText(before, ln)) + 3
        IN  /\ Len(doc) = Len(before)
            /\ \A i \in 0..(Len(doc) - 1) : i # box => At(doc, i) = At(before, i)
            /\ At(before, box) = (IF lastOp.checked THEN "x" ELSE " ")
            /\ At(doc, box) = (IF lastOp.checked THEN " " ELSE "x")

\* a checked box on a line that is not the first one has been toggled
C8_Witness ==
    /\ lastOp.op = "toggle"
    /\ lastOp.checked
    /\ lastOp.from > 0
    /\ Len(doc) > lastOp.to

\* two decorations cover a common character
Overlap(d, e) == d.from < e.to /\ e.from < d.to

\* C15: the replace (hide) and mark decorations of one pass are pairwise
\* non-overlapping.
C15_NoOverlap ==
    \A d \in deco : \A e \in deco :
        (d # e /\ d.kind \in {"replace", "mark"} /\ e.kind \in {"replace", "mark"})
            => ~Overlap(d, e)

\* the block-level kinds that put a decoration on the line ln
BlockKindsOn(ln) ==
    {k \in {"checklist", "heading", "blockquote", "ul", "ol"} :
        \E d \in deco : d.what = k /\ ln.from <= d.from /\ d.to <= ln.to}

\* C16: on every line at most one block-level kind produces decorations, and a
\* line that matches the checklist pattern gets no unordered-list bullet or
\* marker-hiding decoration.
C16_OneBlockKind ==
    \A ln \in Lines(doc) :
        /\ Cardinality(BlockKindsOn(ln)) <= 1
        /\ checklistRe(LineText(doc, ln)) => "ul" \notin BlockKindsOn(ln)

\* C23: a checklist line that holds the caret, and is therefore shown raw,
\* still has a checkbox widget among the decorations of the pass.
C23_CheckboxWhileRaw ==
    \A ln \in Lines(doc) :
        (/\ checklistRe(LineText(doc, ln))
         /\ ln.from <= selFrom /\ selFrom <= ln.to)
            => \E d \in deco : /\ d.what = "checklist"
                                /\ ln.from <= d.from /\ d.to <= ln.to

\* C24: a decoration pass in which the typesetting call throws for one math
\* region completes: no exception leaves the editor, the new selection is in
\* place and every other decoration of the pass is there.
C24_TypesetErrorContained ==
    lastOp.op = "typeset"
        => /\ escaped = "none"
           /\ selFrom = lastOp.from /\ selTo = lastOp.to
           /\ deco = {d \in decorateDoc(doc, lastOp.from, lastOp.to) :
                         ~(d.what \in {MathWhat(TRUE), MathWhat(FALSE)}
                               /\ d.from = lastOp.at)}

\* C25: on every line, below an opener ($ or $$) for which the scan finds no
\* closer before the end of the line neither scanMath (block or inline) nor
\* findMathRegions emits a region: no region starts at or after that opener.
C25_UnterminatedNoRegion ==
    \A ln \in Lines(doc) :
        /\ \A block \in BOOLEAN :
               scanMathUnmatched(LineText(doc, ln), block, 0) # -1
                   => \A r \in scanMath(LineText(doc, ln), TRUE)
                                   \cup scanMath(LineText(doc, ln), FALSE) :
                          r[1] < scanMathUnmatched(LineText(doc, ln), block, 0)
        /\ unmatchedFrom(LineText(doc, ln), 0) # -1
               => \A r \in findMathRegions(LineText(doc, ln)) :
                      r.start < unmatchedFrom(LineText(doc, ln), 0)

----------------------------------------------------------------------------
(* Specification SpecImage: a document with one image, under the alignment  *)
(* menu, the resize handles and the mouse gesture on the image widget       *)

\* bound: the number of lines of the document
MaxImageLines == 3

\* the annotations the image comes with: none, one, or one of each kind in
\* either order
ImageAnnotations ==
    {<<>>,
     Annotation(PosTag, PositioningData("l")),
     Annotation(SizeTag, SizeData),
     Annotation(PosTag, PositioningData("l")) \o Annotation(SizeTag, SizeData),
     Annotation(SizeTag, SizeData) \o Annotation(PosTag, PositioningData("l"))}

\* the line of the image: the token, at the start of the line or behind text
ImageLines == {p \o ImgLit(<<"a">>, <<"s">>) \o c : p \in {<<>>, <<"b">>}, c \in ImageAnnotations}

PlainLines == {<<>>, <<"b">>}

RECURSIVE JoinLines(_)
JoinLines(ls) ==
    IF Len(ls) = 0 THEN <<>>
    ELSE IF Len(ls) = 1 THEN ls[1]
    ELSE ls[1] \o <<"\n">> \o JoinLines(Tail(ls))

ImageDocs ==
    {JoinLines([j \in 1..k |-> IF j = i THEN img ELSE f[j]]) :
        <<k, i, f, img>> \in
            {q \in (1..MaxImageLines) \X (1..MaxImageLines)
                       \X [1..MaxImageLines -> PlainLines] \X ImageLines :
                q[2] <= q[1]}}

InitImage ==
    /\ doc \in ImageDocs
    /\ selFrom = 0
    /\ selTo = 0
    /\ deco = decorateDoc(doc, 0, 0)
    /\ onChangeText = NoCall
    /\ onAutoSaveProp = FALSE
    /\ saveTimer = NoTimer
    /\ autoSaved = <<>>
    /\ escaped = "none"
    /\ drag = NoDrag
    /\ now = 0
    /\ keys = NoKeys
    /\ lastOp = NoOp
    /\ CEUnmounted
    /\ OnlyInstance

NextImage ==
    \/ \E w \in deco : \E alignment \in Alignments : ImageAlign(w, alignment)
    \/ \E w \in deco : ImageResize(w)
    \/ \E w \in deco : ImageMouseDown(w)
    \/ \E lines \in DragLines : ImageMouseMove(lines)
    \/ \E side \in Sides : ImageMouseUp(side)

SpecImage == InitImage /\ [][NextImage]_vars

\* the image tokens of a document as decorateDoc reads them: the text of each
\* imgRe match and the offset in it where the annotation comments start
ImageTokens(d) ==
    UNION {{[tok |-> Substring(LineText(d, ln), m.index, m.end),
             comments |-> m.srcEnd + 1 - m.index] : m \in imgRe(LineText(d, ln))} :
           ln \in Lines(d)}

\* the number of annotation comments with a tag of tags among the comments of
\* a token that start at p
RECURSIVE CountAnnotations(_, _, _)
CountAnnotations(tok, p, tags) ==
    IF commentEndAt(tok, p, CommentTags) = -1 THEN 0
    ELSE (IF commentEndAt(tok, p, tags) # -1 THEN 1 ELSE 0)
             + CountAnnotations(tok, commentEndAt(tok, p, CommentTags), tags)

\* C17: after an alignment, a horizontal drag or a resize (in a run without
\* vertical moves) every image token of the document has the alt and src of the
\* widget and at most one pos/inline comment and at most one size comment.
C17_AnnotationsReplaced ==
    (lastOp.op \in {"align", "hdrag", "resize"} /\ drag.v = 0)
        => \A t \in ImageTokens(doc) :
              /\ StartsWith(t.tok, ImgLit(lastOp.alt, lastOp.src), 0)
              /\ CountAnnotations(t.tok, t.comments, {PosTag, InlineTag}) <= 1
              /\ CountAnnotations(t.tok, t.comments, {SizeTag}) <= 1

\* C18: after a horizontal drag to the left the image token carries a pos
\* annotation whose alignment is left, with alt and src as before.
C18_DragLeftWritesPos ==
    (lastOp.op = "hdrag" /\ lastOp.arg = "left")
        => \E t \in ImageTokens(doc) :
              /\ StartsWith(t.tok, ImgLit(lastOp.alt, lastOp.src), 0)
              /\ IndexOf(t.tok, Annotation(PosTag, PositioningData("l")), 0) # -1

\* C19: after the first vertical move of a gesture on an image whose whole
\* token was found, the token (tok) is out of its line and stands at the very
\* start of the target line, followed by one new line break; the rest of the
\* document (rest) is unchanged.
C19_MovedToLineStart ==
    (lastOp.op = "vmove" /\ lastOp.first
        /\ lastOp.from = lastOp.wfrom /\ lastOp.to = lastOp.wto)
        => LET tok == Substring(lastOp.before, lastOp.wfrom, lastOp.wto)
               rest == Substring(lastOp.before, 0, lastOp.wfrom)
                           \o Substring(lastOp.before, lastOp.wto, Len(lastOp.before))
               at == IF lastOp.target <= lastOp.wfrom THEN lastOp.target
                     ELSE lastOp.target - Len(tok)
           IN  doc = Substring(rest, 0, at) \o tok \o <<"\n">>
                         \o Substring(rest, at, Len(rest))

\* C20: after the first vertical move of a gesture the token stands in the
\* document with all the annotation comments it had before the move.
C20_MoveCarriesAnnotations ==
    (lastOp.op = "vmove" /\ lastOp.first)
        => IndexOf(doc, Substring(lastOp.before, lastOp.wfrom, lastOp.wto), 0) # -1

\* C21: a gesture on an image that moved it horizontally ends, at mouseup,
\* with the offset written: the mouseup reached the document and the image
\* token carries the inline annotation of the gesture, also when a vertical
\* move of the gesture rebuilt the widget.
C21_OffsetWrittenOnUp ==
    (lastOp.op \in {"hdrag", "dropped"} /\ lastOp.arg # "none")
        => /\ lastOp.op = "hdrag"
           /\ \E t \in ImageTokens(doc) :
                  StartsWith(t.tok, ImgLit(lastOp.alt, lastOp.src)
                                        \o Annotation(InlineTag, PositioningData("i")), 0)

\* the mousemove and mouseup listeners that toDOM and addResizeHandles of the
\* widgets on display registered on document: both are added when the widget
\* is built and no code removes them
DocumentListeners ==
    {<<w, type>> : w \in ImageWidgets, type \in {"mousemove", "mouseup"}}

\* C28: without a gesture in progress no mousemove/mouseup listener of an image
\* widget is registered on document, and a vertical move is only ever made by
\* a widget that is still on display (a destroyed widget does not react).
C28_ListenersOnlyInGesture ==
    /\ ~drag.active => DocumentListeners = {}
    /\ lastOp.op = "vmove" => lastOp.first

----------------------------------------------------------------------------
(* Specification SpecPixels: one image, the pixels of its widget followed   *)
(* through horizontal drags and resizes                                     *)

\* bound: the widths of the viewport
InnerWidths == {500, 1000}

\* bound: the offsets an inline annotation of the document can hold
StoredOffsets == {-400, -100, 0, 100, 400}

\* bound: the widths and heights at which the image can be on display
DisplayedSizes == {30, 400, 1000}

\* maxHeight of an image without size annotation
DefaultMaxHeight == 520

\* the document: the image with an inline annotation, a size annotation, both
\* or none
PixelAnnotations ==
    {[text |-> <<>>, inline |-> FALSE, size |-> FALSE],
     [text |-> Annotation(InlineTag, PositioningData("i")), inline |-> TRUE, size |-> FALSE],
     [text |-> Annotation(SizeTag, SizeData), inline |-> FALSE, size |-> TRUE],
     [text |-> Annotation(InlineTag, PositioningData("i")) \o Annotation(SizeTag, SizeData),
      inline |-> TRUE, size |-> TRUE]}

\* mount: the widget has the offset of the inline annotation as its left
\* margin and the size of the size annotation; without one it has the default
\* margin, and the natural size of the picture up to maxHeight
InitPixels ==
    /\ \E c \in PixelAnnotations, iw \in InnerWidths, o \in StoredOffsets,
          wd \in DisplayedSizes, ht \in DisplayedSizes :
           /\ c.inline \/ o = 0
           /\ c.size \/ ht <= DefaultMaxHeight
           /\ doc = ImgLit(<<"a">>, <<"s">>) \o c.text
           /\ drag = [NoDrag EXCEPT
                         !.px = [NoPx EXCEPT !.innerWidth = iw,
                                             !.marginLeft = BuiltMargin(o),
                                             !.width = wd, !.height = ht]]
    /\ selFrom = 0
    /\ selTo = 0
    /\ deco = decorateDoc(doc, 0, 0)
    /\ onChangeText = NoCall
    /\ onAutoSaveProp = FALSE
    /\ saveTimer = NoTimer
    /\ autoSaved = <<>>
    /\ escaped = "none"
    /\ now = 0
    /\ keys = NoKeys
    /\ lastOp = NoOp
    /\ CEUnmounted
    /\ OnlyInstance

NextPixels ==
    \/ \E w \in deco : ImageMouseDown(w)
    \/ \E deltaX \in DeltaXs : PixelMouseMove(deltaX)
    \/ PixelMouseUp
    \/ \E w \in deco : \E handle \in Handles : PixelResizeDown(w, handle)
    \/ \E deltaX \in ResizeDeltas : \E deltaY \in ResizeDeltas :
           PixelResizeMove(deltaX, deltaY)
    \/ PixelResizeUp

SpecPixels == InitPixels /\ [][NextPixels]_vars

\* C29: the offset that the end of a press on the image writes into the
\* annotation is within +-30% of the viewport width.
C29_OffsetClamped ==
    lastOp.op = "offset"
        => /\ -maxOffset(lastOp.innerWidth) <= lastOp.offset
           /\ lastOp.offset <= maxOffset(lastOp.innerWidth)

\* C30: the width and the height that the end of a press on a resize handle
\* writes into the size annotation are both within [50, 800] px.
C30_SizeClamped ==
    lastOp.op = "size"
        => /\ minSize <= lastOp.width /\ lastOp.width <= maxSize
           /\ minSize <= lastOp.height /\ lastOp.height <= maxSize

\* the annotation comments of the kinds tags in text from p on, joined
RECURSIVE CommentsOf(_, _, _)
CommentsOf(text, p, tags) ==
    LET i == IndexOf(text, <<"<", "!", "-", "-">>, p)
    IN  IF i = -1 THEN <<>>
        ELSE IF commentEndAt(text, i, tags) = -1 THEN CommentsOf(text, i + 1, tags)
        ELSE Substring(text, i, commentEndAt(text, i, tags))
                 \o CommentsOf(text, commentEndAt(text, i, tags), tags)

\* C35: a resize leaves the pos or inline annotation of the image as it was,
\* and an alignment or a horizontal drag leaves its size annotation as it
\* was.
C35_OtherAnnotationKept ==
    /\ lastOp.op = "resize"
           => CommentsOf(doc, 0, {PosTag, InlineTag})
                  = CommentsOf(lastOp.before, 0, {PosTag, InlineTag})
    /\ lastOp.op \in {"align", "hdrag"}
           => CommentsOf(doc, 0, {SizeTag}) = CommentsOf(lastOp.before, 0, {SizeTag})

\* C36: a press and a release of the left button on an image with no pointer
\* movement in between leave the document as it was and call no onChange and
\* schedule no autosave.
C36_ClickChangesNothing ==
    [][(drag.active /\ drag.last = 0 /\ ~drag'.active /\ lastOp'.arg = "none")
          => (doc' = doc /\ onChangeText' = onChangeText /\ saveTimer' = saveTimer)]_vars

----------------------------------------------------------------------------
(* Specification SpecDup: the image interactions on a document that holds   *)
(* the same image, alt and src, on two lines                                *)

\* two lines, each the token ![a](s) with its own annotations
DupDocs ==
    {ImgLit(<<"a">>, <<"s">>) \o c1 \o <<"\n">> \o ImgLit(<<"a">>, <<"s">>) \o c2 :
        c1 \in ImageAnnotations, c2 \in ImageAnnotations}

InitDup ==
    /\ doc \in DupDocs
    /\ selFrom = 0
    /\ selTo = 0
    /\ deco = decorateDoc(doc, 0, 0)
    /\ onChangeText = NoCall
    /\ onAutoSaveProp = FALSE
    /\ saveTimer = NoTimer
    /\ autoSaved = <<>>
    /\ escaped = "none"
    /\ drag = NoDrag
    /\ now = 0
    /\ keys = NoKeys
    /\ lastOp = NoOp
    /\ CEUnmounted
    /\ OnlyInstance

SpecDup == InitDup /\ [][NextImage]_vars

\* text ends with suffix
EndsWith(text, suffix) ==
    /\ Len(suffix) <= Len(text)
    /\ Slice(text, Len(text) - Len(suffix), Len(text)) = suffix

\* C34: when the document holds two image tokens with the same alt and src,
\* an alignment, a resize or a horizontal drag on the widget of one of them
\* rewrites that token and its annotations only: the text in front of the
\* range the widget replaced and the text behind it are kept.
C34_OnlyTargetRewritten ==
    lastOp.op \in {"align", "resize", "hdrag"}
        => /\ StartsWith(doc, Slice(lastOp.before, 0, lastOp.wfrom), 0)
           /\ EndsWith(doc, Slice(lastOp.before, lastOp.wto, Len(lastOp.before)))

----------------------------------------------------------------------------
(* Specification SpecDrop: the drop and paste handlers of the mount effect, *)
(* the uploads they start, and edits made while an upload is in flight      *)

\* bound: the number of drops, pastes and edits of a run
MaxDropOps == 4

\* bound: the number of uploads in flight
MaxUploads == 1

\* the text the handlers insert: the token on a line of its own
imageMd(alt, src) == <<"\n">> \o ImgLit(alt, src) \o <<"\n">>

\* `\n![image](${url})\n` for the url the upload resolves with
uploadMd == imageMd(<<"i", "m", "a", "g", "e">>, <<"u">>)

InsertAt(d, pos, md) == Slice(d, 0, pos) \o md \o Slice(d, pos, Len(d))

\* coords ? coords : view.state.selection.main.from, where coords is
\* view.posAtCoords(...): null and offset 0 both give the selection
DropPos(coords) == IF coords = 0 THEN selFrom ELSE coords

\* bound: where the pointer is at the drop
DropCoords == {0, 1, Len(doc)} \cap (0..Len(doc))

\* the drop points of the uploads in flight after n characters were put in at
\* offset at (n > 0) or taken out behind it (n < 0): lo and hi are the two
\* positions the change maps the drop point to (history)
MappedUploads(at, n) ==
    [i \in 1..Len(uploads) |->
        [uploads[i] EXCEPT
            !.lo = IF n > 0 THEN (IF @ > at THEN @ + n ELSE @)
                   ELSE (IF @ >= at - n THEN @ + n ELSE IF @ > at THEN at ELSE @),
            !.hi = IF n > 0 THEN (IF @ >= at THEN @ + n ELSE @)
                   ELSE (IF @ >= at - n THEN @ + n ELSE IF @ > at THEN at ELSE @)]]

\* drop of an image widget dragged with HTML5 drag and drop: dragstart has
\* stored alt and src, the drop handler inserts the token at the drop point
ImageDrop(w, coords) ==
    /\ w \in ImageWidgets
    /\ drag.n < MaxDropOps
    /\ LET pos == DropPos(coords)
           md == imageMd(WidgetAlt(w), WidgetSrc(w))
       IN  /\ Dispatch(InsertAt(doc, pos, md), pos + Len(md), pos + Len(md), TRUE, TRUE)
           /\ lastOp' = ImgOp("drop", [from |-> pos, to |-> pos], WidgetAlt(w),
                              WidgetSrc(w), "", w, 0, FALSE)
           /\ uploads' = MappedUploads(pos, Len(md))
    /\ drag' = [drag EXCEPT !.n = drag.n + 1]
    /\ UNCHANGED <<onAutoSaveProp, autoSaved, escaped, now, keys, ceVars,
                   currentEditorView, peer>>

\* drop of an image file (a paste is the same with the selection as the
\* position): uploadImage starts and its callback closes over pos
FileDrop(coords) ==
    /\ drag.n < MaxDropOps
    /\ Len(uploads) < MaxUploads
    /\ uploads' = Append(uploads, [pos |-> DropPos(coords), lo |-> DropPos(coords),
                                   hi |-> DropPos(coords)])
    /\ drag' = [drag EXCEPT !.n = drag.n + 1]
    /\ lastOp' = NoOp
    /\ UNCHANGED <<doc, selFrom, selTo, deco, onChangeText, saveTimer, onAutoSaveProp,
                   autoSaved, escaped, now, keys, ceVars, currentEditorView, peer>>

\* the user types a character at the caret
DropType(c) ==
    /\ drag.n < MaxDropOps
    /\ Dispatch(Slice(doc, 0, selFrom) \o <<c>> \o Slice(doc, selTo, Len(doc)),
                selFrom + 1, selFrom + 1, TRUE, TRUE)
    /\ uploads' = MappedUploads(selFrom, 1)
    /\ drag' = [drag EXCEPT !.n = drag.n + 1]
    /\ lastOp' = NoOp
    /\ UNCHANGED <<onAutoSaveProp, autoSaved, escaped, now, keys, ceVars,
                   currentEditorView, peer>>

\* Backspace: the character before the caret goes
DropBackspace ==
    /\ drag.n < MaxDropOps
    /\ selFrom > 0
    /\ Dispatch(Slice(doc, 0, selFrom - 1) \o Slice(doc, selTo, Len(doc)),
                selFrom - 1, selFrom - 1, TRUE, TRUE)
    /\ uploads' = MappedUploads(selFrom - 1, -1)
    /\ drag' = [drag EXCEPT !.n = drag.n + 1]
    /\ lastOp' = NoOp
    /\ UNCHANGED <<onAutoSaveProp, autoSaved, escaped, now, keys, ceVars,
                   currentEditorView, peer>>

\* uploadImage resolves: the callback dispatches the insertion at the pos it
\* closed over; view.dispatch throws a RangeError for a position behind the
\* end of the document, and .catch(() => {}) swallows it
UploadResolved ==
    /\ uploads # <<>>
    /\ LET u == Head(uploads)
           inserted == u.pos <= Len(doc)
       IN  /\ IF inserted
              THEN Dispatch(InsertAt(doc, u.pos, uploadMd), u.pos + Len(uploadMd),
                            u.pos + Len(uploadMd), TRUE, TRUE)
              ELSE UNCHANGED <<doc, selFrom, selTo, deco, onChangeText, saveTimer>>
           /\ lastOp' = [op |-> "upload", before |-> doc, from |-> u.pos, to |-> u.pos,
                         checked |-> FALSE, lo |-> u.lo, hi |-> u.hi]
    /\ uploads' = Tail(uploads)
    /\ UNCHANGED <<drag, onAutoSaveProp, autoSaved, escaped, now, keys, ceVars,
                   currentEditorView, peer>>

\* the documents of SpecDrop: one image, bare or annotated, alone or behind a
\* line of text
DropDocs ==
    {p \o ImgLit(<<"a">>, <<"s">>) \o c :
        p \in {<<>>, <<"b", "\n">>},
        c \in {<<>>, Annotation(PosTag, PositioningData("l"))}}

InitDrop ==
    /\ doc \in DropDocs
    /\ selFrom = 0
    /\ selTo = 0
    /\ deco = decorateDoc(doc, 0, 0)
    /\ onChangeText = NoCall
    /\ onAutoSaveProp = FALSE
    /\ saveTimer = NoTimer
    /\ autoSaved = <<>>
    /\ escaped = "none"
    /\ drag = NoDrag
    /\ now = 0
    /\ keys = NoKeys
    /\ lastOp = NoOp
    /\ CEUnmounted
    /\ OnlyInstance

NextDrop ==
    \/ \E w \in deco : \E coords \in DropCoords : ImageDrop(w, coords)
    \/ \E coords \in DropCoords : FileDrop(coords)
    \/ DropType("b")
    \/ DropBackspace
    \/ UploadResolved

SpecDrop == InitDrop /\ [][NextDrop]_vars

\* C37: a repositioning by HTML5 drag and drop leaves the number of image
\* tokens of the document as it was and keeps the annotation comments
\* attached to their tokens.
C37_DropMovesToken ==
    lastOp.op = "drop"
        => /\ Cardinality(imgRe(doc)) = Cardinality(imgRe(lastOp.before))
           /\ {Substring(doc, m.index, m.end) : m \in imgRe(doc)}
                  = {Substring(lastOp.before, m.index, m.end) : m \in imgRe(lastOp.before)}

\* C38: when an upload resolves after edits, its token is in the document
\* exactly once, at the position the edits have moved the drop point to.
C38_UploadAtDropPoint ==
    lastOp.op = "upload"
        => \E p \in lastOp.lo..lastOp.hi : doc = InsertAt(lastOp.before, p, uploadMd)

----------------------------------------------------------------------------
(* Specification SpecValue: the value prop of CMMarkdownEditor, set by a    *)
(* parent that hands every onChange text back as the value prop             *)

\* bound: the length of the document up to which the user types
MaxValueLen == 3

\* bound: the effect runs that are followed through one echo
MaxEcho == 3

\* the value-sync effect that dispatches whatever the value prop is
valueSyncAlways(current, v) == [dispatched |-> TRUE, doc |-> v]

\* the value-sync effect for the document current and the value prop v: the
\* whole document is replaced by v when the two differ
valueSync(current, v) ==
    IF current # v
    THEN [dispatched |-> TRUE,
          doc |-> Slice(current, 0, 0) \o v \o Slice(current, Len(current), Len(current))]
    ELSE [dispatched |-> FALSE, doc |-> current]

\* the number of transactions the effect dispatches once the value prop is v
\* and the document d: after each one the update listener calls onChange
\* with the new document, the parent hands it back as the value prop and the
\* effect runs again (at most n times)
RECURSIVE Echo(_, _, _)
Echo(d, v, n) ==
    IF n = 0 \/ ~valueSync(d, v).dispatched THEN 0
    ELSE 1 + Echo(valueSync(d, v).doc, valueSync(d, v).doc, n - 1)

\* the document the echoes end with
RECURSIVE Echoed(_, _, _)
Echoed(d, v, n) ==
    IF n = 0 \/ ~valueSync(d, v).dispatched THEN d
    ELSE Echoed(valueSync(d, v).doc, valueSync(d, v).doc, n - 1)

\* the parent sets the value prop to v
ValueSet(v) ==
    /\ v # value
    /\ IF valueSync(doc, v).dispatched
       THEN DispatchContent(Echoed(doc, v, MaxEcho))
       ELSE UNCHANGED <<doc, selFrom, selTo, deco, onChangeText, saveTimer>>
    /\ value' = Echoed(doc, v, MaxEcho)
    /\ lastOp' = [op |-> "value", before |-> doc, from |-> 0, to |-> Len(doc),
                  checked |-> FALSE, value |-> v, dispatches |-> Echo(doc, v, MaxEcho)]
    /\ UNCHANGED <<onAutoSaveProp, autoSaved, escaped, drag, now, keys, nodes, caret,
                   editingMathNodeRef, lastKeyRef, keyDown, mathRenderTimeout, saveTimeout,
                   ceOnChange, ceAutoSaved, ceEvent, hung, winVars>>

\* the user types a character: the update listener calls onChange and the
\* text comes back as the value prop
ValueKey(c) ==
    /\ Len(doc) < MaxValueLen
    /\ LET typed == Slice(doc, 0, selFrom) \o <<c>> \o Slice(doc, selTo, Len(doc))
       IN  /\ Dispatch(Echoed(typed, typed, MaxEcho), selFrom + 1, selFrom + 1, TRUE, TRUE)
           /\ value' = Echoed(typed, typed, MaxEcho)
           /\ lastOp' = [op |-> "key", before |-> doc, from |-> selFrom, to |-> selTo,
                         checked |-> FALSE, value |-> typed,
                         dispatches |-> Echo(typed, typed, MaxEcho)]
    /\ UNCHANGED <<onAutoSaveProp, autoSaved, escaped, drag, now, keys, nodes, caret,
                   editingMathNodeRef, lastKeyRef, keyDown, mathRenderTimeout, saveTimeout,
                   ceOnChange, ceAutoSaved, ceEvent, hung, winVars>>

\* the texts the parent sets
ValueTexts == TokenDocs(1)

InitValue ==
    /\ doc \in ValueTexts
    /\ value = doc
    /\ selFrom = 0
    /\ selTo = 0
    /\ deco = decorateDoc(doc, 0, 0)
    /\ onChangeText = NoCall
    /\ onAutoSaveProp = FALSE
    /\ saveTimer = NoTimer
    /\ autoSaved = <<>>
    /\ escaped = "none"
    /\ drag = NoDrag
    /\ now = 0
    /\ keys = NoKeys
    /\ lastOp = NoOp
    /\ nodes = <<>>
    /\ caret = NoCaret
    /\ editingMathNodeRef = 0
    /\ lastKeyRef = "null"
    /\ keyDown = "none"
    /\ mathRenderTimeout = "none"
    /\ saveTimeout = NoSaveTimeout
    /\ ceOnChange = NoCall
    /\ ceAutoSaved = NoSave
    /\ ceEvent = [ev |-> "none", keys |-> 0, clicks |-> 0, before |-> <<>>, text |-> <<>>,
                  key |-> "none", marker |-> FALSE]
    /\ hung = FALSE
    /\ OnlyInstance

NextValue ==
    \/ \E v \in ValueTexts : ValueSet(v)
    \/ ValueKey("a")

SpecValue == InitValue /\ [][NextValue]_vars

\* C40: when the value prop changes to a text that differs from the document
\* the document becomes that text with one transaction; the echo of the
\* editor's own onChange through the value prop dispatches nothing and leaves
\* the document as typed.
C40_ValueSyncNoEcho ==
    /\ lastOp.op = "value"
           => /\ doc = lastOp.value
              /\ lastOp.dispatches = (IF lastOp.before = lastOp.value THEN 0 ELSE 1)
    /\ lastOp.op = "key" => (doc = lastOp.value /\ lastOp.dispatches = 0)
    /\ value = doc

\* the parent has replaced a document that was not empty by a different text
C40_Witness ==
    /\ lastOp.op = "value"
    /\ lastOp.before # <<>>
    /\ lastOp.before # lastOp.value
    /\ doc = lastOp.value
    /\ onChangeText = lastOp.value

----------------------------------------------------------------------------
(* Specification SpecTwo: two CMMarkdownEditor instances on one page and    *)
(* the window.currentEditorView they share                                  *)

\* the documents of the second instance
PeerDocs == TokenDocs(1)

\* instance A is mounted alone; instance B mounts and unmounts beside it
InitTwo == InitDecor

NextTwo ==
    \/ \E d \in PeerDocs : MountPeer(d)
    \/ UnmountPeer
    \/ \E w \in deco : WidgetClick("A", w)
    \/ \E w \in peer.deco : WidgetClick("B", w)

SpecTwo == InitTwo /\ [][NextTwo]_vars

\* C33: with two CMMarkdownEditor instances on a page, a click on a checkbox
\* of instance A toggles that checkbox in A's document and leaves B's
\* document unchanged, also after B has unmounted.
C33_InstancesIndependent ==
    (lastOp.op = "toggle" /\ lastOp.inst = "A")
        => /\ doc = Toggled(lastOp.before, lastOp.from, lastOp.checked)
           /\ peer.doc = lastOp.peerBefore

----------------------------------------------------------------------------
(* Specification SpecMath: the math matchers of the two editors on the      *)
(* same one-line texts of dollars, backslashes and letters                  *)

\* bound: the length of the texts
MaxMathLen == 5

RECURSIVE MathTexts(_)
MathTexts(n) ==
    IF n = 0 THEN {<<>>}
    ELSE MathTexts(n - 1)
             \cup {t \o <<c>> : t \in MathTexts(n - 1), c \in {"$", "\\", "a"}}

InitMath ==
    /\ doc \in MathTexts(MaxMathLen)
    /\ selFrom = 0
    /\ selTo = 0
    /\ deco = decorateDoc(doc, 0, 0)
    /\ onChangeText = NoCall
    /\ onAutoSaveProp = FALSE
    /\ saveTimer = NoTimer
    /\ autoSaved = <<>>
    /\ escaped = "none"
    /\ drag = NoDrag
    /\ now = 0
    /\ keys = NoKeys
    /\ lastOp = NoOp
    /\ CEUnmounted
    /\ OnlyInstance

NextMath == \E m \in UserSelections : CMSelect(m[1], m[2])

SpecMath == InitMath /\ [][NextMath]_vars

\* the text has no two dollars next to each other (no block delimiter)
NoDollarPair(text) ==
    \A k \in 0..(Len(text) - 2) : ~(At(text, k) = "$" /\ At(text, k + 1) = "$")

\* C31: for every dollar of the text, the lookbehind of the patterns of
\* convertMathInPlace rejects it exactly when isEsc of scanMath (the same count
\* as isEscaped of findMathRegions) calls it escaped; and on a text without
\* block delimiters scanMath, findMathRegions and the patterns find the same
\* inline regions.
C31_MatchersAgreeOnEscapes ==
    /\ \A k \in 0..(Len(doc) - 1) :
           At(doc, k) = "$" => (~NotAfterBackslash(doc, k) <=> isEsc(doc, k))
    /\ NoDollarPair(doc)
           => /\ scanMath(doc, FALSE)
                     = {<<r.start, r.end>> : r \in findMathRegions(doc)}
              /\ scanMath(doc, FALSE) = mathSpans(doc, 0)

----------------------------------------------------------------------------
(* Specification SpecSave: typing in the CodeMirror editor with the         *)
(* debounced autosave, against a clock                                      *)

\* bound: the number of keystrokes of a run
BurstKeys == 10

\* bound: the last tick of the clock
MaxTime == 12

KeyStroke == [n |-> keys.n + 1,
              first |-> IF keys.n = 0 THEN now ELSE keys.first,
              last |-> now]

\* a character key: the input handler replaces the selection by the character
CMKey(c) ==
    /\ keys.n < BurstKeys
    /\ Dispatch(Slice(doc, 0, selFrom) \o <<c>> \o Slice(doc, selTo, Len(doc)),
                selFrom + 1, selFrom + 1, TRUE, TRUE)
    /\ keys' = KeyStroke
    /\ lastOp' = NoOp
    /\ UNCHANGED <<onAutoSaveProp, autoSaved, escaped, drag, now, ceVars, winVars>>

\* Backspace: deletes the selected range, or the character before the caret
CMBackspace ==
    /\ keys.n < BurstKeys
    /\ selTo > 0
    /\ LET from == IF selFrom < selTo THEN selFrom ELSE selFrom - 1
       IN  Dispatch(Slice(doc, 0, from) \o Slice(doc, selTo, Len(doc)),
                    from, from, TRUE, TRUE)
    /\ keys' = KeyStroke
    /\ lastOp' = NoOp
    /\ UNCHANGED <<onAutoSaveProp, autoSaved, escaped, drag, now, ceVars, winVars>>

\* what a call of the onAutoSave prop can do: return (or resolve), throw, or
\* return a promise that rejects
Outcomes == {"ok", "throws", "rejects"}

\* the callback of saveTimer: () => onAutoSave(text).  Nothing encloses the
\* call: an exception leaves the callback uncaught and the returned promise is
\* dropped, so a rejection is unhandled.
CMSaveTimerFire ==
    /\ saveTimer.active
    /\ saveTimer.left = 0
    /\ autoSaved' = Append(autoSaved, saveTimer.text)
    /\ \E outcome \in Outcomes :
           escaped' = IF outcome = "ok" THEN escaped ELSE outcome
    /\ saveTimer' = NoTimer
    /\ UNCHANGED <<doc, selFrom, selTo, deco, onChangeText, onAutoSaveProp, drag, now,
                   keys, lastOp, ceVars, winVars>>

\* 200 ms pass; a timer that is due fires before more time passes
Tick ==
    /\ now < MaxTime
    /\ ~(saveTimer.active /\ saveTimer.left = 0)
    /\ now' = now + 1
    /\ saveTimer' = IF saveTimer.active
                    THEN [saveTimer EXCEPT !.left = saveTimer.left - 1]
                    ELSE saveTimer
    /\ UNCHANGED <<doc, selFrom, selTo, deco, onChangeText, onAutoSaveProp, autoSaved,
                   escaped, drag,
                   keys, lastOp, ceVars, winVars>>

InitSave ==
    /\ doc = <<>>
    /\ selFrom = 0
    /\ selTo = 0
    /\ deco = decorateDoc(doc, 0, 0)
    /\ onChangeText = NoCall
    /\ onAutoSaveProp = TRUE
    /\ saveTimer = NoTimer
    /\ autoSaved = <<>>
    /\ escaped = "none"
    /\ drag = NoDrag
    /\ now = 0
    /\ keys = NoKeys
    /\ lastOp = NoOp
    /\ CEUnmounted
    /\ OnlyInstance

NextSave ==
    \/ CMKey("a")
    \/ CMBackspace
    \/ CMSaveTimerFire
    \/ Tick

SpecSave == InitSave /\ [][NextSave]_vars

\* the debounce delay of the content-editable editor, 1000 ms, in ticks
DomSaveDelay == 5

\* C10: when ten keystrokes have been delivered within one second and no
\* autosave is pending any more, onAutoSave has been called exactly once, with
\* the text after the tenth keystroke.
C10_TenKeysOneSave ==
    (keys.n = BurstKeys /\ keys.last - keys.first <= DomSaveDelay /\ ~saveTimer.active)
        => autoSaved = <<doc>>

\* C13: no error of onAutoSave (an exception, a rejected promise) leaves the
\* editor uncaught.
C13_ErrorsSwallowed == escaped = "none"

\* C11: no onAutoSave call carries a text equal to the value that was persisted
\* last: the value the editor was mounted with (the empty document here) for
\* the first call, the text of the previous call for every later one.
C11_NoRedundantSave ==
    \A i \in 1..Len(autoSaved) :
        autoSaved[i] # (IF i = 1 THEN <<>> ELSE autoSaved[i - 1])

----------------------------------------------------------------------------
(* Specification SpecCE: the content-editable editor opened on a bounded    *)
(* document, with clicks, keys and the two timers                           *)

\* bound: the number of tokens the value prop is built from
MaxCETokens == 2

CETokens ==
    { <<"a">>, <<"\n">>, <<"\r">>, <<"$">>, <<"$", "a", "$">>,
      <<"$", "$", "a", "$", "$">>,
      <<"!", "[", "a", "]", "(", "s", ")">>,
      <<"!", "[", "a", "]", "(", "s", ")",
        "<", "!", "-", "-", "p", "o", "s", ":", "{", "}", "-", "-", ">">> }

RECURSIVE CEDocs(_)
CEDocs(n) ==
    IF n = 0 THEN {<<>>}
    ELSE CEDocs(n - 1) \cup {d \o t : d \in CEDocs(n - 1), t \in CETokens}

\* the CodeMirror editor is not mounted
CMUnmounted ==
    /\ currentEditorView = "null"
    /\ peer = NoPeer
    /\ uploads = <<>>
    /\ doc = <<>>
    /\ selFrom = 0
    /\ selTo = 0
    /\ deco = {}
    /\ onChangeText = NoCall
    /\ onAutoSaveProp = FALSE
    /\ saveTimer = NoTimer
    /\ autoSaved = <<>>
    /\ escaped = "none"
    /\ drag = NoDrag
    /\ keys = NoKeys
    /\ lastOp = NoOp

\* handleEdit: the tree is rendered from the value prop, the caret is put at
\* the end of the root and the highlight is refreshed
InitCE ==
    /\ CMUnmounted
    /\ now = 0
    /\ value \in CEDocs(MaxCETokens)
    /\ LET ns == renderMarkdownInto(value)
           u == updateDeletionFocusHighlight(ns, InRoot(Len(ns)), 0)
       IN  /\ nodes = u.ns
           /\ caret = u.c
           /\ editingMathNodeRef = u.ref
           /\ hung = u.hung
    /\ lastKeyRef = "null"
    /\ keyDown = "none"
    /\ mathRenderTimeout = "none"
    /\ saveTimeout = NoSaveTimeout
    /\ ceOnChange = NoCall
    /\ ceAutoSaved = NoSave
    /\ ceEvent = [ev |-> "mount", keys |-> 0, clicks |-> 0, key |-> "none", before |-> <<>>,
                  text |-> value, marker |-> FALSE]

\* the characters the user types
TypedChars == {"a", "$"}

NextCE ==
    \/ \E c \in ClickTargets : handleMouseUp(c)
    \/ \E ch \in TypedChars : CEKey(ch)
    \/ CEBackspace
    \/ handleKeyDownEnter
    \/ handleKeyUp
    \/ MathRenderTimer
    \/ SaveTimer
    \/ CEUnmount
    \/ handleCancel

SpecCE == InitCE /\ [][NextCE]_vars

\* C1: after every input event the handler has dealt with, the text last
\* passed to onChange is the serialization of the editor root.
C1_OnChangeCurrent ==
    (ceEvent.ev = "input" /\ ~hung) => ceOnChange = serializeDomToMarkdown(nodes)

C7_MathSerializesCanonically ==
    ceEvent.ev = "math" => serializeDomToMarkdown(nodes) = ceEvent.before

\* C9: an onAutoSave call carries the text of the last change of the document.
C9_SaveCarriesLastText ==
    ceAutoSaved.called => ceAutoSaved.arg = ceAutoSaved.last


\* C12: once the editor is unmounted, the text passed to onChange last (when it
\* differs from the value prop) has been delivered to onAutoSave.
C12_UnmountFlushes ==
    (ceEvent.ev = "unmount" /\ ceOnChange # NoCall /\ ceOnChange # value)
        => (ceAutoSaved.called /\ ceAutoSaved.arg = ceOnChange)

\* the rendered math widgets among the children of the root
MathWidgets(ns) == {j \in 1..Len(ns) : ns[j].t = "math"}

\* C14: no handler reveals more than one rendered math widget: while the editor
\* is mounted, a step turns at most one math widget into raw text (the node
\* editingMathNodeRef then tracks).
C14_OneRevealPerStep ==
    [][ceEvent'.ev \notin {"unmount", "cancel"}
           => Cardinality(MathWidgets(nodes)) - Cardinality(MathWidgets(nodes')) <= 1]_vars

\* the offset idx is inside a $$ block of text that has no closing $$: the
\* scan of findMathRegions stops at a $$ opener before idx
InUnterminatedBlock(text, idx) ==
    /\ unmatchedFrom(text, 0) # -1
    /\ IsDollar(text, unmatchedFrom(text, 0) + 1)
    /\ idx >= unmatchedFrom(text, 0) + 2

\* C22: a step in which convertMathInPlace runs while the caret is in a text
\* node, inside an unterminated $$ block of it, leaves that text node as it
\* is: no part of it is replaced by a math widget.
C22_UnterminatedBlockStaysRaw ==
    [][(/\ ceEvent'.ev = "math"
        /\ caret.at = "text"
        /\ InUnterminatedBlock(nodes[caret.n].s, caret.off))
           => \E j \in 1..Len(nodes') : nodes'[j] = nodes[caret.n]]_vars

\* C26: a step in which convertMathInPlace runs never replaces the math source
\* the caret is in: the caret is not strictly inside a span of its text node
\* that the step converts.
C26_CaretSpanNotConverted ==
    [][(/\ ceEvent'.ev = "math"
        /\ caret.at = "text"
        /\ caret.n # editingMathNodeRef)
           => \A sp \in mathSpans(nodes[caret.n].s, 0) :
                  ~(sp[1] < caret.off /\ caret.off < sp[2])]_vars

\* C27: when the most recent keystroke typed a bare $ or \ and the re-render
\* scheduled by its input event is pending, the step that follows does not run
\* convertMathInPlace: the timer, when it fires, gives up.
C27_DelimiterSuppressesRender ==
    [][(ceEvent.key \in {"$", "\\"} /\ mathRenderTimeout = "input")
           => ceEvent'.ev # "math"]_vars


\* the sentinel occurs in the text
HasCaretMark(text) == \E k \in 1..Len(text) : text[k] = CARET_MARK

\* C32: the caret sentinel U+E000 never occurs in a text passed to onChange
\* or onAutoSave, and a handler inserts no sentinel while a math region is
\* revealed for editing or while the caret is strictly inside a math region
\* of its text node.
C32_SentinelContained ==
    [][/\ ~HasCaretMark(ceOnChange')
       /\ ~HasCaretMark(saveTimeout'.text)
       /\ ~HasCaretMark(ceAutoSaved'.arg)
       /\ \A i \in 1..Len(nodes') : ~HasCaretMark(nodes'[i].s)
       /\ (ceEvent'.keys = ceEvent.keys + 1 /\ ceEvent'.marker)
              => LET e == InsertChar(nodes, caret, editingMathNodeRef, ceEvent'.key)
                 IN  /\ editingMathNodeRef = 0
                     /\ ~caretInsideMath(e.ns[e.c.n].s, e.c.off)]_vars

\* a keystroke outside every math region has put the sentinel in and taken it
\* out again, and the text went to onChange
C32_Witness ==
    /\ ceEvent.ev = "input"
    /\ ceEvent.marker
    /\ ceOnChange = serializeDomToMarkdown(nodes)
    /\ saveTimeout.active
    /\ Len(ceOnChange) > 0


\* C39: after Cancel or Escape, onAutoSave is not called, whether or not a
\* debounced autosave was pending.
C39_CancelStopsAutosave == ceAutoSaved.called => ~ceAutoSaved.afterCancel

====
